---- MODULE Spec2Model ----
(***************************************************************************)
(* Synchronized multi-viewer navigation service (webserver/src/lib.rs).    *)
(*                                                                         *)
(* The shared AppState (collection, cursor, viewer registry, vote map) is  *)
(* guarded by one tokio RwLock; every handler below takes the lock once    *)
(* and is one atomic step.  A session (handle_socket) registers, sends the *)
(* initial snapshot, spawns its two pumps (send_task, recv_task), waits    *)
(* for either to finish and then cleans up.  The pumps are tokio::spawn    *)
(* tasks: dropping their JoinHandle when handle_socket returns detaches    *)
(* them, it does not abort them.                                           *)
(*                                                                         *)
(* An item of the collection is modelled by the length of its page_paths;  *)
(* indices are 0-based as in the source, sequences 1-based.                *)
(***************************************************************************)
EXTENDS Integers, Sequences, FiniteSets, TLC

\* ---- bounds of the model ------------------------------------------------
MaxSessions == 3
MaxMangas == 2
MaxPages == 3
MaxQueue == 1
MaxGroups == 2
MaxEntries == 2
MaxImages == 2
MaxCmds == 3

Sessions == 1..MaxSessions

\* Option<Action>
Votes == {"None", "Next", "Prev"}
Intents == {"Next", "Prev"}

RECURSIVE SeqsUpTo(_, _)
SeqsUpTo(S, n) ==
    IF n = 0 THEN {<<>>}
    ELSE LET shorter == SeqsUpTo(S, n - 1)
         IN  shorter \cup {Append(q, x) : q \in {r \in shorter : Len(r) = n - 1}, x \in S}

\* Vec<Manga> handed to start_web_server: any list, items may have no page
Collections == SeqsUpTo(0..MaxPages, MaxMangas)

VARIABLES
    mangas,         \* AppState.mangas: page count of each item
    current_manga,  \* AppState.current_manga
    current_page,   \* AppState.current_page
    users,          \* AppState.users: ids of the registered viewers
    actions,        \* AppState.actions: id -> Option<Action>
    pc,             \* position of each handle_socket
    recv_alive,     \* recv_task of the session is running
    send_alive,     \* send_task of the session is running
    queue,          \* the session's unbounded channel (tx -> rx)
    last,           \* the step taken last: operation, session, the vote cast,
                    \* the consensus applied, the pending votes it reset
    wire,           \* what handle_socket and send_task have written to the
                    \* session's socket: kind of the first frame, number of
                    \* initial snapshots
    http,           \* the request image_handler served last and its response
    crit,           \* per task, where it stands in a section of code that
                    \* holds the RwLock of the shared state
    srv,            \* the shutdown flag and whether the listener accepts
    shown,          \* per session, the snapshot written to its socket last
    db,             \* the catalog: rows of manga_groups, manga_entries and
                    \* manga_images, and the image files on disk
    job,            \* where delete_cascade stands
    gui_recv,       \* the commands sent by the GUI and not yet received
    backend         \* DataStorage: position of run, exiting, manga_groups,
                    \* and the commands received so far

vars == <<mangas, current_manga, current_page, users, actions, pc,
          recv_alive, send_alive, queue, last, wire, http, crit, srv, shown,
          db, job, gui_recv, backend>>

catalog == <<db, job, gui_recv, backend>>

shared == <<mangas, current_manga, current_page, users, actions>>

\* ---- the catalog at rest -------------------------------------------------
GroupIds == 1..MaxGroups
EntryIds == 1..MaxEntries
ImageIds == 1..MaxImages

\* no delete_cascade under way
NoJob == [stage |-> "idle", kind |-> "none", group |-> 0, entries |-> {}, all |-> {},
          entry |-> 0, images |-> {}, image |-> 0, gone |-> {}]

\* DataStorage as start builds it, run at its first recv_timeout
Fresh == [at |-> "recv", exiting |-> FALSE, manga_groups |-> {}, log |-> << >>]

\* an empty catalog and a backend that is sent nothing
CatalogIdle ==
    /\ db = [groups |-> {}, entries |-> << >>, images |-> << >>, files |-> {}]
    /\ job = NoJob
    /\ gui_recv = << >>
    /\ backend = Fresh

\* ---- HashMap helpers ----------------------------------------------------
MapInsert(m, k, v) == [x \in DOMAIN m \cup {k} |-> IF x = k THEN v ELSE m[x]]

\* mutant: the entry is left in the map
MapRemove_Keeps(m, k) == m

MapRemove(m, k) == [x \in DOMAIN m \ {k} |-> m[x]]

\* mutant: the votes are left as they are
ClearActions_Keeps(m) == m

\* for action in actions.values_mut() { *action = None }
ClearActions(m) == [x \in DOMAIN m |-> "None"]

\* ---- AppState ------------------------------------------------------------
\* the (current_manga, current_page) a ClientState is built from
get_client_state(cm, cp) == <<cm, cp>>

\* the ClientState get_client_state builds for the cursor `snap` of the
\* collection ms; an item stands for its own name, score and comment
ClientState(ms, snap) ==
    [manga_name |-> snap[1] + 1,
     page_src |-> [manga |-> snap[1], page |-> snap[2]],
     manga_score |-> snap[1] + 1,
     manga_comment |-> snap[1] + 1,
     manga_pos |-> <<snap[1] + 1, Len(ms)>>,
     page_pos |-> <<snap[2] + 1, ms[snap[1] + 1]>>]

\* mutant: a viewer that has not voted does not block the others
check_consensus_IgnoresMissing(acts, usrs, first) ==
    IF DOMAIN acts = {} \/ usrs = {} THEN "None"
    ELSE LET cast == {acts[k] : k \in DOMAIN acts} \ {"None"}
         IN  IF Cardinality(cast) = 1 THEN CHOOSE a \in cast : TRUE ELSE "None"

\* `first` is the entry actions.values().next() yields (hash order)
check_consensus(acts, usrs, first) ==
    IF DOMAIN acts = {} \/ usrs = {} THEN "None"
    ELSE LET first_action == acts[first]
         IN  IF first_action = "None" THEN "None"
             ELSE IF \A k \in DOMAIN acts : acts[k] = first_action
                  THEN first_action
                  ELSE "None"

\* mutant: Next leaves the last item
navigate_LeavesCollection(ms, cm, cp, action) ==
    IF action = "Next"
    THEN IF cp + 1 < ms[cm + 1] THEN <<cm, cp + 1>>
         ELSE <<cm + 1, 0>>
    ELSE IF cp > 0 THEN <<cm, cp - 1>>
         ELSE IF cm > 0
              THEN IF ms[cm] > 0 THEN <<cm - 1, ms[cm] - 1>>
                   ELSE <<cm - 1, 0>>
              ELSE <<cm, cp>>

\* mutant: Next rolls over one page early
navigate_RollsEarly(ms, cm, cp, action) ==
    IF action = "Next"
    THEN IF cp + 2 < ms[cm + 1] THEN <<cm, cp + 1>>
         ELSE IF cm + 1 < Len(ms) THEN <<cm + 1, 0>>
         ELSE <<cm, cp>>
    ELSE IF cp > 0 THEN <<cm, cp - 1>>
         ELSE IF cm > 0
              THEN IF ms[cm] > 0 THEN <<cm - 1, ms[cm] - 1>>
                   ELSE <<cm - 1, 0>>
              ELSE <<cm, cp>>

\* mutant: Prev enters the previous item at its first page
navigate_PrevToFirstPage(ms, cm, cp, action) ==
    IF action = "Next"
    THEN IF cp + 1 < ms[cm + 1] THEN <<cm, cp + 1>>
         ELSE IF cm + 1 < Len(ms) THEN <<cm + 1, 0>>
         ELSE <<cm, cp>>
    ELSE IF cp > 0 THEN <<cm, cp - 1>>
         ELSE IF cm > 0 THEN <<cm - 1, 0>>
              ELSE <<cm, cp>>

\* the cursor navigate leaves
navigate(ms, cm, cp, action) ==
    IF action = "Next"
    THEN IF cp + 1 < ms[cm + 1] THEN <<cm, cp + 1>>
         ELSE IF cm + 1 < Len(ms) THEN <<cm + 1, 0>>
         ELSE <<cm, cp>>
    ELSE IF cp > 0 THEN <<cm, cp - 1>>
         ELSE IF cm > 0
              THEN IF ms[cm] > 0 THEN <<cm - 1, ms[cm] - 1>>
                   ELSE <<cm - 1, 0>>
              ELSE <<cm, cp>>

\* the receiving half of the session's channel still exists
RxOpen(s) == pc[s] = "registered" \/ send_alive[s]

\* user.tx.send(msg): fails, and is ignored, when the receiver is gone
TxSend(q, s, msg) == IF RxOpen(s) THEN Append(q[s], msg) ELSE q[s]

broadcast_state(q, usrs, msg) ==
    [s \in Sessions |-> IF s \in usrs THEN TxSend(q, s, msg) ELSE q[s]]

\* room for one more message in every channel (bound of the model)
QueuesHaveRoom == \A s \in Sessions : Len(queue[s]) < MaxQueue

\* what `last` records of a step
Step(op, id, intent, applied, cleared) ==
    [op |-> op, id |-> id, intent |-> intent, applied |-> applied, cleared |-> cleared]

\* the entries of a vote map that hold a vote
Pending(m) == {k \in DOMAIN m : m[k] # "None"}

\* the kind of a message of the channel
FrameKind(msg) == IF msg = "ping" THEN "ping" ELSE "snapshot"

\* sender.send(frame) on a socket that has carried w; kind "failed" is a
\* send that returned an error
WireWrite(w, kind) ==
    [first |-> IF w.first = "none" THEN kind ELSE w.first,
     initials |-> IF kind = "initial" THEN w.initials + 1 ELSE w.initials]

\* what the client shows after the frame msg: a snapshot replaces the one
\* shown, a ping does not
Display(old, msg) == IF msg = "ping" THEN old ELSE msg

\* the screens after the frame msg is written to the socket of s; shown keeps
\* the screens of the sessions it is defined on
Shows(f, s, msg) == IF s \in DOMAIN f THEN [f EXCEPT ![s] = Display(@, msg)] ELSE f

\* a socket whose first write failed takes no write afterwards
Broken(w) == w.first = "failed"

\* nothing written to the socket yet / the socket of a session that ran
NoFrames == [first |-> "none", initials |-> 0]
InitialSent == [first |-> "initial", initials |-> 1]

\* The tasks that take the lock: handle_socket and recv_task of a session,
\* the heartbeat, and the handler of an HTTP request (home_handler or
\* image_handler).
heartbeat == <<"heartbeat", 0>>
web == <<"web", 0>>
conn(s) == <<"conn", s>>
recv(s) == <<"recv", s>>
Tasks == {conn(s) : s \in Sessions} \cup {recv(s) : s \in Sessions} \cup {heartbeat, web}

\* a task outside every section that holds the lock
Idle == [stage |-> "idle", intent |-> "None", left |-> {}, snap |-> <<0, 0>>]

\* the listener accepts and no shutdown is requested
Serving == [flag |-> FALSE, accepting |-> TRUE]

\* no request served yet
NoRequest == [req |-> "none", manga |-> 0, page |-> 0, result |-> "none"]

\* the collection of the spec's scenarios A-E, and the empty one
ScenarioCollections == {<< >>, <<3, 2>>}

Init ==
    /\ mangas \in ScenarioCollections
    /\ current_manga = 0
    /\ current_page = 0
    /\ users = {}
    /\ actions = << >>
    /\ pc = [s \in Sessions |-> "new"]
    /\ recv_alive = [s \in Sessions |-> FALSE]
    /\ send_alive = [s \in Sessions |-> FALSE]
    /\ queue = [s \in Sessions |-> << >>]
    /\ last = Step("init", 0, "None", "None", {})
    /\ wire = [s \in Sessions |-> NoFrames]
    /\ http = NoRequest
    /\ crit = [t \in Tasks |-> Idle]
    /\ srv = Serving
    /\ shown = << >>
    /\ CatalogIdle

\* mutant: the pumps are spawned on registration, before the initial state
Register_SpawnsPumps(s) ==
    /\ srv.accepting
    /\ pc[s] = "new"
    /\ \A t \in Sessions : t < s => pc[t] # "new"
    /\ users' = users \cup {s}
    /\ actions' = MapInsert(actions, s, "None")
    /\ pc' = [pc EXCEPT ![s] = "registered"]
    /\ recv_alive' = [recv_alive EXCEPT ![s] = TRUE]
    /\ send_alive' = [send_alive EXCEPT ![s] = TRUE]
    /\ last' = Step("register", s, "None", "None", {})
    /\ UNCHANGED <<mangas, current_manga, current_page, queue, wire, http, crit, srv, shown, catalog>>

\* handle_socket, "Register user", for a connection the listener accepted;
\* ids are fresh, taken in order
Register(s) ==
    /\ srv.accepting
    /\ pc[s] = "new"
    /\ \A t \in Sessions : t < s => pc[t] # "new"
    /\ users' = users \cup {s}
    /\ actions' = MapInsert(actions, s, "None")
    /\ pc' = [pc EXCEPT ![s] = "registered"]
    /\ last' = Step("register", s, "None", "None", {})
    /\ UNCHANGED <<mangas, current_manga, current_page, recv_alive, send_alive, queue,
                   wire, http, crit, srv, shown, catalog>>

\* handle_socket, "Send initial state" and the spawn of the two pumps;
\* get_client_state indexes mangas[current_manga] and panics on an empty list
SendInitial(s) ==
    /\ pc[s] = "registered"
    /\ IF Len(mangas) = 0
       THEN /\ pc' = [pc EXCEPT ![s] = "panicked"]
            /\ queue' = [queue EXCEPT ![s] = << >>]
            /\ UNCHANGED <<recv_alive, send_alive, wire, shown>>
       ELSE /\ pc' = [pc EXCEPT ![s] = "active"]
            /\ wire' = [wire EXCEPT ![s] = WireWrite(@, "initial")]
            /\ shown' = Shows(shown, s, get_client_state(current_manga, current_page))
            /\ recv_alive' = [recv_alive EXCEPT ![s] = TRUE]
            /\ send_alive' = [send_alive EXCEPT ![s] = TRUE]
            /\ UNCHANGED queue
    /\ last' = Step("other", 0, "None", "None", {})
    /\ UNCHANGED <<shared, http, crit, srv, catalog>>

\* handle_socket, "Send initial state" when sender.send returns an error:
\* the result is dropped (let _ =) and the two pumps are spawned all the same
SendInitialFails(s) ==
    /\ pc[s] = "registered"
    /\ Len(mangas) # 0
    /\ pc' = [pc EXCEPT ![s] = "active"]
    /\ wire' = [wire EXCEPT ![s] = WireWrite(@, "failed")]
    /\ recv_alive' = [recv_alive EXCEPT ![s] = TRUE]
    /\ send_alive' = [send_alive EXCEPT ![s] = TRUE]
    /\ last' = Step("other", 0, "None", "None", {})
    /\ UNCHANGED <<shared, queue, http, crit, srv, shown, catalog>>

\* recv_task -> handle_client_msg, "next" / "prev"
CastVote(s, intent) ==
    /\ recv_alive[s]
    /\ LET acts == MapInsert(actions, s, intent)
       IN  \E first \in DOMAIN acts :
             LET consensus == check_consensus(acts, users, first)
             IN  IF consensus # "None"
                 THEN LET cur == navigate(mangas, current_manga, current_page, consensus)
                      IN  /\ QueuesHaveRoom
                          /\ current_manga' = cur[1]
                          /\ current_page' = cur[2]
                          /\ actions' = ClearActions(acts)
                          /\ queue' = broadcast_state(queue, users,
                                          get_client_state(cur[1], cur[2]))
                          /\ last' = Step("vote", s, intent, consensus, Pending(acts))
                 ELSE /\ actions' = acts
                      /\ last' = Step("vote", s, intent, "None", {})
                      /\ UNCHANGED <<current_manga, current_page, queue>>
    /\ UNCHANGED <<mangas, users, pc, recv_alive, send_alive, wire, http, crit, srv, shown, catalog>>

\* recv_task -> handle_client_msg: "hello", an unknown type, text that does
\* not parse, or a frame that is not text
RecvOther(s) ==
    /\ recv_alive[s]
    /\ last' = Step("drop", s, "None", "None", {})
    /\ UNCHANGED <<shared, pc, recv_alive, send_alive, queue, wire, http, crit, srv, shown, catalog>>

\* The frames a client can send, by what recv_task and serde make of them:
\* a text frame or another data frame (binary, ping, pong); text that is a
\* JSON object or not; its "type" field, absent (or not a string) or one of
\* the strings; its "uuid" field, absent (or not a string), the client's own
\* token or another client's.
MsgTypes == {"absent", "hello", "next", "prev", "other"}
UuidFields == {"absent", "own", "foreign"}
Frames ==
    {f \in [text : BOOLEAN, json : BOOLEAN, type : MsgTypes, uuid : UuidFields] :
        /\ ~f.text => ~f.json
        /\ ~f.json => f.type = "absent" /\ f.uuid = "absent"}

\* mutant: the uuid field is optional
Decode_UuidOptional(f) ==
    IF ~f.text THEN "Ignore"
    ELSE IF ~f.json \/ f.type = "absent" THEN "Ignore"
    ELSE IF f.type = "next" THEN "Next"
    ELSE IF f.type = "prev" THEN "Prev"
    ELSE "Ignore"

\* recv_task's `if let Message::Text`, serde_json::from_str::<ClientMsg>
\* (both fields required) and the match on msg.type
Decode(f) ==
    IF ~f.text THEN "Ignore"
    ELSE IF ~f.json \/ f.type = "absent" \/ f.uuid = "absent" THEN "Ignore"
    ELSE IF f.type = "next" THEN "Next"
    ELSE IF f.type = "prev" THEN "Prev"
    ELSE "Ignore"

\* mutant: the vote goes to the viewer the uuid field names
Recv_TrustsUuid(s, f) ==
    IF Decode(f) \in Intents
    THEN IF f.uuid = "own"
         THEN CastVote(s, Decode(f))
         ELSE recv_alive[s] /\ \E t \in Sessions \ {s} : CastVote(t, Decode(f))
    ELSE RecvOther(s)

\* recv_task: receiver.next() yields the frame f
Recv(s, f) ==
    IF Decode(f) \in Intents
    THEN CastVote(s, Decode(f))
    ELSE RecvOther(s)

\* recv_task: receiver.next() yields None or Err, the loop ends
RecvEnd(s) ==
    /\ recv_alive[s]
    /\ recv_alive' = [recv_alive EXCEPT ![s] = FALSE]
    /\ last' = Step("other", 0, "None", "None", {})
    /\ UNCHANGED <<shared, pc, send_alive, queue, wire, http, crit, srv, shown, catalog>>

\* send_task: rx.recv() yields a message and sender.send succeeds
SendFlush(s) ==
    /\ send_alive[s]
    /\ queue[s] # << >>
    /\ ~Broken(wire[s])
    /\ queue' = [queue EXCEPT ![s] = Tail(@)]
    /\ wire' = [wire EXCEPT ![s] = WireWrite(@, FrameKind(Head(queue[s])))]
    /\ shown' = Shows(shown, s, Head(queue[s]))
    /\ last' = Step("other", 0, "None", "None", {})
    /\ UNCHANGED <<shared, pc, recv_alive, send_alive, http, crit, srv, catalog>>

\* send_task: sender.send fails, the loop breaks and rx is dropped
SendFail(s) ==
    /\ send_alive[s]
    /\ queue[s] # << >>
    /\ queue' = [queue EXCEPT ![s] = << >>]
    /\ send_alive' = [send_alive EXCEPT ![s] = FALSE]
    /\ last' = Step("other", 0, "None", "None", {})
    /\ UNCHANGED <<shared, pc, recv_alive, wire, http, crit, srv, shown, catalog>>

\* send_task: rx.recv() yields None once every sender is dropped
SendEnd(s) ==
    /\ send_alive[s]
    /\ queue[s] = << >>
    /\ pc[s] = "closed"
    /\ send_alive' = [send_alive EXCEPT ![s] = FALSE]
    /\ last' = Step("other", 0, "None", "None", {})
    /\ UNCHANGED <<shared, pc, recv_alive, queue, wire, http, crit, srv, shown, catalog>>

\* mutant: the remaining votes are evaluated before they are cleared
Cleanup_Reevaluates(s) ==
    /\ pc[s] = "active"
    /\ ~recv_alive[s] \/ ~send_alive[s]
    /\ users' = users \ {s}
    /\ pc' = [pc EXCEPT ![s] = "closed"]
    /\ last' = Step("cleanup", s, "None", "None", Pending(MapRemove(actions, s)))
    /\ LET acts == MapRemove(actions, s)
           rest == users \ {s}
       IN  /\ actions' = ClearActions(acts)
           /\ IF DOMAIN acts # {} /\ rest # {}
                 /\ \E a \in Intents : \A k \in DOMAIN acts : acts[k] = a
              THEN LET a == CHOOSE a \in Intents : \A k \in DOMAIN acts : acts[k] = a
                       cur == navigate(mangas, current_manga, current_page, a)
                   IN  /\ QueuesHaveRoom
                       /\ current_manga' = cur[1]
                       /\ current_page' = cur[2]
                       /\ queue' = broadcast_state(queue, rest,
                                       get_client_state(cur[1], cur[2]))
              ELSE UNCHANGED <<current_manga, current_page, queue>>
    /\ UNCHANGED <<mangas, recv_alive, send_alive, wire, http, crit, srv, shown, catalog>>

\* mutant: the end of one session closes every session's registration
Cleanup_DropsRegistry(s) ==
    /\ pc[s] = "active"
    /\ ~recv_alive[s] \/ ~send_alive[s]
    /\ users' = {}
    /\ actions' = ClearActions(MapRemove(actions, s))
    /\ pc' = [pc EXCEPT ![s] = "closed"]
    /\ last' = Step("cleanup", s, "None", "None", Pending(MapRemove(actions, s)))
    /\ UNCHANGED <<mangas, current_manga, current_page, recv_alive, send_alive, queue,
                   wire, http, crit, srv, shown, catalog>>

\* mutant: the cleanup leaves the session where it was, to be cleaned up again
Cleanup_Repeats(s) ==
    /\ pc[s] = "active"
    /\ ~recv_alive[s] \/ ~send_alive[s]
    /\ users' = users \ {s}
    /\ actions' = ClearActions(MapRemove(actions, s))
    /\ last' = Step("cleanup", s, "None", "None", Pending(MapRemove(actions, s)))
    /\ UNCHANGED <<mangas, current_manga, current_page, pc, recv_alive, send_alive, queue,
                   wire, http, crit, srv, shown, catalog>>

\* handle_socket, after select!: "Cleanup"
Cleanup(s) ==
    /\ pc[s] = "active"
    /\ ~recv_alive[s] \/ ~send_alive[s]
    /\ users' = users \ {s}
    /\ actions' = ClearActions(MapRemove(actions, s))
    /\ pc' = [pc EXCEPT ![s] = "closed"]
    /\ last' = Step("cleanup", s, "None", "None", Pending(MapRemove(actions, s)))
    /\ UNCHANGED <<mangas, current_manga, current_page, recv_alive, send_alive, queue,
                   wire, http, crit, srv, shown, catalog>>

\* mutant: a tick unregisters the viewers whose queue is closed
Heartbeat_Unregisters ==
    /\ QueuesHaveRoom
    /\ queue' = broadcast_state(queue, users, "ping")
    /\ users' = {u \in users : RxOpen(u)}
    /\ last' = Step("heartbeat", 0, "None", "None", {})
    /\ UNCHANGED <<mangas, current_manga, current_page, actions, pc, recv_alive,
                   send_alive, wire, http, crit, srv, shown, catalog>>

\* heartbeat task: one tick
Heartbeat ==
    /\ QueuesHaveRoom
    /\ queue' = broadcast_state(queue, users, "ping")
    /\ last' = Step("heartbeat", 0, "None", "None", {})
    /\ UNCHANGED <<shared, pc, recv_alive, send_alive, wire, http, crit, srv, shown, catalog>>

\* the query parameters of an image request reach past the collection
ImageMangas == 0..(MaxMangas + 3)
ImagePages == 0..MaxPages

\* mutant: the last page index is checked with > instead of >=
image_response_OffByOne(ms, m, p, readable) ==
    IF m >= Len(ms) THEN "Invalid manga index"
    ELSE IF p > ms[m + 1] THEN "Invalid page index"
    ELSE IF readable THEN "image/webp"
    ELSE "Failed to read image"

\* image_handler: the response to /image?manga=m&page=p
image_response(ms, m, p, readable) ==
    IF m >= Len(ms) THEN "Invalid manga index"
    ELSE IF p >= ms[m + 1] THEN "Invalid page index"
    ELSE IF readable THEN "image/webp"
    ELSE "Failed to read image"

\* mutant: a page whose file cannot be read is dropped from its item
ImageFetch_PrunesUnreadable(m, p, readable) ==
    /\ http' = [req |-> "image", manga |-> m, page |-> p,
                result |-> image_response(mangas, m, p, readable)]
    /\ mangas' = IF image_response(mangas, m, p, readable) = "Failed to read image"
                 THEN [mangas EXCEPT ![m + 1] = @ - 1]
                 ELSE mangas
    /\ last' = Step("image", 0, "None", "None", {})
    /\ UNCHANGED <<current_manga, current_page, users, actions, pc, recv_alive,
                   send_alive, queue, wire, crit, srv, shown, catalog>>

\* image_handler: one request; the file is read after the lock is released
ImageFetch(m, p, readable) ==
    /\ http' = [req |-> "image", manga |-> m, page |-> p,
                result |-> image_response(mangas, m, p, readable)]
    /\ last' = Step("image", 0, "None", "None", {})
    /\ UNCHANGED <<shared, pc, recv_alive, send_alive, queue, wire, crit, srv, shown, catalog>>

\* home_handler: the response to /; get_client_state panics on an empty list
home_response(ms) == IF Len(ms) = 0 THEN "panic" ELSE "html"

\* home_handler: one request; the page embeds the snapshot read under the
\* read guard
HomeFetch ==
    /\ http' = [req |-> "home", manga |-> get_client_state(current_manga, current_page)[1],
                page |-> get_client_state(current_manga, current_page)[2],
                result |-> home_response(mangas)]
    /\ last' = Step("home", 0, "None", "None", {})
    /\ UNCHANGED <<shared, pc, recv_alive, send_alive, queue, wire, crit, srv, shown, catalog>>

Next ==
    \/ \E s \in Sessions : Register(s)
    \/ \E s \in Sessions : SendInitial(s)
    \/ \E s \in Sessions, intent \in Intents : CastVote(s, intent)
    \/ \E s \in Sessions : RecvOther(s)
    \/ \E s \in Sessions : RecvEnd(s)
    \/ \E s \in Sessions : SendFlush(s)
    \/ \E s \in Sessions : SendFail(s)
    \/ \E s \in Sessions : SendEnd(s)
    \/ \E s \in Sessions : Cleanup(s)
    \/ Heartbeat

\* Spec leaves SendInitialFails out: for everything but the socket, a failed
\* write of the initial state is a written one followed by SendFail.
Spec == Init /\ [][Next]_vars

\* every step of the service, the failed write of the initial state included
NextWire ==
    \/ Next
    \/ \E s \in Sessions : SendInitialFails(s)

\* Any collection within the bounds, served to the last connection of the
\* process: the earlier ones have come and gone (closed, both pumps over).
InitNav ==
    /\ mangas \in Collections \ {<< >>}
    /\ current_manga = 0
    /\ current_page = 0
    /\ users = {}
    /\ actions = << >>
    /\ pc = [s \in Sessions |-> IF s = MaxSessions THEN "new" ELSE "closed"]
    /\ recv_alive = [s \in Sessions |-> FALSE]
    /\ send_alive = [s \in Sessions |-> FALSE]
    /\ queue = [s \in Sessions |-> << >>]
    /\ last = Step("init", 0, "None", "None", {})
    /\ wire = [s \in Sessions |-> IF s = MaxSessions THEN NoFrames ELSE InitialSent]
    /\ http = NoRequest
    /\ crit = [t \in Tasks |-> Idle]
    /\ srv = Serving
    /\ shown = << >>
    /\ CatalogIdle

SpecNav == InitNav /\ [][Next]_vars

\* The scenarios' collection served to the last two connections of the
\* process, the earlier ones closed.
PairStart ==
    /\ mangas \in ScenarioCollections \ {<< >>}
    /\ current_manga = 0
    /\ current_page = 0
    /\ users = {}
    /\ actions = << >>
    /\ pc = [s \in Sessions |-> IF s >= MaxSessions - 1 THEN "new" ELSE "closed"]
    /\ recv_alive = [s \in Sessions |-> FALSE]
    /\ send_alive = [s \in Sessions |-> FALSE]
    /\ queue = [s \in Sessions |-> << >>]
    /\ last = Step("init", 0, "None", "None", {})
    /\ wire = [s \in Sessions |-> IF s >= MaxSessions - 1 THEN NoFrames ELSE InitialSent]
    /\ http = NoRequest
    /\ crit = [t \in Tasks |-> Idle]
    /\ srv = Serving

InitPair == PairStart /\ shown = << >> /\ CatalogIdle

\* The same start with the screens of the two connections followed, blank
\* until a snapshot is written to them.
InitShown ==
    /\ PairStart
    /\ shown = [s \in {MaxSessions - 1, MaxSessions} |-> << >>]
    /\ CatalogIdle

\* handle_socket is a task of the runtime: once select! has returned it is
\* scheduled again, and the write lock it waits for is granted in turn.
\* the service with its inbound frames decoded
NextIO ==
    \/ \E s \in Sessions : Register(s)
    \/ \E s \in Sessions : SendInitial(s)
    \/ \E s \in Sessions : SendInitialFails(s)
    \/ \E s \in Sessions, f \in Frames : Recv(s, f)
    \/ \E s \in Sessions : RecvEnd(s)
    \/ \E s \in Sessions : SendFlush(s)
    \/ \E s \in Sessions : SendFail(s)
    \/ \E s \in Sessions : SendEnd(s)
    \/ \E s \in Sessions : Cleanup(s)
    \/ Heartbeat

\* the service with its image requests
NextHttp ==
    \/ Next
    \/ \E m \in ImageMangas, p \in ImagePages, readable \in BOOLEAN :
          ImageFetch(m, p, readable)
    \/ HomeFetch

\* The collections of full length whose first item has every page, served
\* to the last connection of the process.
IOCollections == {c \in Collections : Len(c) = MaxMangas /\ c[1] = MaxPages}

InitIO ==
    /\ mangas \in IOCollections
    /\ current_manga = 0
    /\ current_page = 0
    /\ users = {}
    /\ actions = << >>
    /\ pc = [s \in Sessions |-> IF s = MaxSessions THEN "new" ELSE "closed"]
    /\ recv_alive = [s \in Sessions |-> FALSE]
    /\ send_alive = [s \in Sessions |-> FALSE]
    /\ queue = [s \in Sessions |-> << >>]
    /\ last = Step("init", 0, "None", "None", {})
    /\ wire = [s \in Sessions |-> IF s = MaxSessions THEN NoFrames ELSE InitialSent]
    /\ http = NoRequest
    /\ crit = [t \in Tasks |-> Idle]
    /\ srv = Serving
    /\ shown = << >>
    /\ CatalogIdle

SpecIO == InitPair /\ [][NextIO]_vars

SpecHttp == InitIO /\ [][NextHttp]_vars

SpecFair == InitPair /\ [][NextWire]_vars /\ \A s \in Sessions : WF_vars(Cleanup(s))

SpecWire == InitPair /\ [][NextWire]_vars

\* the collaborator that owns shutdown_requested stores true into it; nothing
\* in the service stores into it
RequestShutdown ==
    /\ ~srv.flag
    /\ srv' = [srv EXCEPT !.flag = TRUE]
    /\ UNCHANGED <<shared, pc, recv_alive, send_alive, queue, last, wire, http, crit, shown, catalog>>

\* mutant: the signal future completes without looking at the flag
PollShutdown_StopsUnasked ==
    /\ srv.accepting
    /\ srv' = [srv EXCEPT !.accepting = FALSE]
    /\ UNCHANGED <<shared, pc, recv_alive, send_alive, queue, last, wire, http, crit, shown, catalog>>

\* start_web_server, the future given to with_graceful_shutdown: the load
\* that finds the flag set breaks the loop, and axum::serve stops accepting;
\* a load that finds it clear sleeps a second and changes nothing
PollShutdown ==
    /\ srv.accepting
    /\ srv.flag
    /\ srv' = [srv EXCEPT !.accepting = FALSE]
    /\ UNCHANGED <<shared, pc, recv_alive, send_alive, queue, last, wire, http, crit, shown, catalog>>

\* the service with its shutdown signal
NextShutdown ==
    \/ Next
    \/ RequestShutdown
    \/ PollShutdown

\* The signal future is a task of the runtime and its sleep is a second long:
\* it is polled again as long as the server runs.
SpecShutdown == InitPair /\ [][NextShutdown]_vars /\ WF_vars(PollShutdown)

\* ---- the same code, one lock operation at a time ---------------------------

\* the stages of a task inside a write guard, inside a read guard
WriteHeld == {"register", "vote", "check", "broadcast", "cleanup"}
ReadHeld == {"initial", "ping", "home", "image"}
Writers == {t \in Tasks : crit[t].stage \in WriteHeld}
Readers == {t \in Tasks : crit[t].stage \in ReadHeld}

\* mutant: a write guard is handed out while read guards are out
CanWrite_DespiteReaders == Writers = {}

\* tokio::sync::RwLock: write() is granted when no guard is out, read() when
\* no write guard is out
CanWrite == Writers = {} /\ Readers = {}
CanRead == Writers = {}

\* the task moves to a stage / leaves its section
Enter(t, stage, intent, left, snap) ==
    crit' = [crit EXCEPT ![t] = [stage |-> stage, intent |-> intent,
                                 left |-> left, snap |-> snap]]
Leave(t) == crit' = [crit EXCEPT ![t] = Idle]

\* room in the channels of this specification (bound of the model)
QueueDepth == MaxQueue + 1

\* handle_socket, "Register user": state.write().await
LockRegister(s) ==
    /\ srv.accepting
    /\ pc[s] = "new"
    /\ \A t \in Sessions : t < s => pc[t] # "new"
    /\ crit[conn(s)] = Idle
    /\ CanWrite
    /\ Enter(conn(s), "register", "None", {}, <<0, 0>>)
    /\ UNCHANGED <<shared, pc, recv_alive, send_alive, queue, last, wire, http, srv, shown, catalog>>

\* handle_socket, "Register user": the two inserts, the guard is dropped
DoRegister(s) ==
    /\ crit[conn(s)].stage = "register"
    /\ users' = users \cup {s}
    /\ actions' = MapInsert(actions, s, "None")
    /\ pc' = [pc EXCEPT ![s] = "registered"]
    /\ Leave(conn(s))
    /\ UNCHANGED <<mangas, current_manga, current_page, recv_alive, send_alive, queue,
                   last, wire, http, srv, shown, catalog>>

\* handle_socket, "Send initial state": state.read().await
LockInitial(s) ==
    /\ pc[s] = "registered"
    /\ crit[conn(s)] = Idle
    /\ CanRead
    /\ Enter(conn(s), "initial", "None", {}, <<0, 0>>)
    /\ UNCHANGED <<shared, pc, recv_alive, send_alive, queue, last, wire, http, srv, shown, catalog>>

\* handle_socket, "Send initial state": get_client_state under the read
\* guard (a panic on an empty list unwinds through the guard), the guard is
\* dropped
ReadInitial(s) ==
    /\ crit[conn(s)].stage = "initial"
    /\ IF Len(mangas) = 0
       THEN /\ pc' = [pc EXCEPT ![s] = "panicked"]
            /\ queue' = [queue EXCEPT ![s] = << >>]
            /\ Leave(conn(s))
       ELSE /\ Enter(conn(s), "send_initial", "None", {},
                     get_client_state(current_manga, current_page))
            /\ UNCHANGED <<pc, queue>>
    /\ UNCHANGED <<shared, recv_alive, send_alive, last, wire, http, srv, shown, catalog>>

\* handle_socket, "Send initial state": sender.send(..).await with its
\* result dropped, then the spawn of the two pumps
WriteInitial(s, kind) ==
    /\ crit[conn(s)].stage = "send_initial"
    /\ wire' = [wire EXCEPT ![s] = WireWrite(@, kind)]
    /\ shown' = IF kind = "initial" THEN Shows(shown, s, crit[conn(s)].snap) ELSE shown
    /\ pc' = [pc EXCEPT ![s] = "active"]
    /\ recv_alive' = [recv_alive EXCEPT ![s] = TRUE]
    /\ send_alive' = [send_alive EXCEPT ![s] = TRUE]
    /\ Leave(conn(s))
    /\ UNCHANGED <<shared, queue, last, http, srv, catalog>>

\* handle_client_msg, "next" / "prev": state.write().await
LockVote(s, intent) ==
    /\ recv_alive[s]
    /\ crit[recv(s)] = Idle
    /\ CanWrite
    /\ Enter(recv(s), "vote", intent, {}, <<0, 0>>)
    /\ UNCHANGED <<shared, pc, recv_alive, send_alive, queue, last, wire, http, srv, shown, catalog>>

\* mutant: a vote still pending is kept, the new one is dropped
InsertVote_KeepsPending(s) ==
    /\ crit[recv(s)].stage = "vote"
    /\ actions' = IF s \in DOMAIN actions /\ actions[s] # "None"
                  THEN actions
                  ELSE MapInsert(actions, s, crit[recv(s)].intent)
    /\ Enter(recv(s), "check", crit[recv(s)].intent, {}, <<0, 0>>)
    /\ UNCHANGED <<mangas, current_manga, current_page, users, pc, recv_alive,
                   send_alive, queue, last, wire, http, srv, shown, catalog>>

\* handle_client_msg: state.actions.insert(user_uuid, Some(..))
InsertVote(s) ==
    /\ crit[recv(s)].stage = "vote"
    /\ actions' = MapInsert(actions, s, crit[recv(s)].intent)
    /\ Enter(recv(s), "check", crit[recv(s)].intent, {}, <<0, 0>>)
    /\ UNCHANGED <<mangas, current_manga, current_page, users, pc, recv_alive,
                   send_alive, queue, last, wire, http, srv, shown, catalog>>

\* mutant: the snapshot to broadcast is taken before the cursor moves
CheckVote_BroadcastsStale(s) ==
    /\ crit[recv(s)].stage = "check"
    /\ \E first \in DOMAIN actions :
         LET consensus == check_consensus(actions, users, first)
         IN  IF consensus # "None"
             THEN LET cur == navigate(mangas, current_manga, current_page, consensus)
                  IN  /\ current_manga' = cur[1]
                      /\ current_page' = cur[2]
                      /\ actions' = ClearActions(actions)
                      /\ Enter(recv(s), "broadcast", crit[recv(s)].intent, users,
                               get_client_state(current_manga, current_page))
             ELSE /\ Leave(recv(s))
                  /\ UNCHANGED <<current_manga, current_page, actions>>
    /\ UNCHANGED <<mangas, users, pc, recv_alive, send_alive, queue, last, wire, http, srv, shown, catalog>>

\* handle_client_msg: check_consensus; without consensus the guard is
\* dropped; with it navigate (the cursor, then the votes) and the message
\* broadcast_state builds
CheckVote(s) ==
    /\ crit[recv(s)].stage = "check"
    /\ \E first \in DOMAIN actions :
         LET consensus == check_consensus(actions, users, first)
         IN  IF consensus # "None"
             THEN LET cur == navigate(mangas, current_manga, current_page, consensus)
                  IN  /\ current_manga' = cur[1]
                      /\ current_page' = cur[2]
                      /\ actions' = ClearActions(actions)
                      /\ Enter(recv(s), "broadcast", crit[recv(s)].intent, users,
                               get_client_state(cur[1], cur[2]))
             ELSE /\ Leave(recv(s))
                  /\ UNCHANGED <<current_manga, current_page, actions>>
    /\ UNCHANGED <<mangas, users, pc, recv_alive, send_alive, queue, last, wire, http, srv, shown, catalog>>

\* mutant: broadcast_state takes the lock itself, state.read(), for each send
SendState_Relocks(s, u) ==
    /\ crit[recv(s)].stage = "broadcast"
    /\ u \in crit[recv(s)].left
    /\ CanRead
    /\ Len(queue[u]) < QueueDepth
    /\ queue' = [queue EXCEPT ![u] = TxSend(queue, u, crit[recv(s)].snap)]
    /\ crit' = [crit EXCEPT ![recv(s)].left = @ \ {u}]
    /\ UNCHANGED <<shared, pc, recv_alive, send_alive, last, wire, http, srv, shown, catalog>>

\* mutant: a channel of one slot, the send waits for the slot to be free
SendState_AwaitsRoom(s, u) ==
    /\ crit[recv(s)].stage = "broadcast"
    /\ u \in crit[recv(s)].left
    /\ queue[u] = << >>
    /\ queue' = [queue EXCEPT ![u] = TxSend(queue, u, crit[recv(s)].snap)]
    /\ crit' = [crit EXCEPT ![recv(s)].left = @ \ {u}]
    /\ UNCHANGED <<shared, pc, recv_alive, send_alive, last, wire, http, srv, shown, catalog>>

\* mutant: the viewer whose vote completed the consensus is sent nothing
SendState_SkipsSender(s, u) ==
    /\ crit[recv(s)].stage = "broadcast"
    /\ u \in crit[recv(s)].left
    /\ Len(queue[u]) < QueueDepth
    /\ queue' = IF u = s THEN queue
                         ELSE [queue EXCEPT ![u] = TxSend(queue, u, crit[recv(s)].snap)]
    /\ crit' = [crit EXCEPT ![recv(s)].left = @ \ {u}]
    /\ UNCHANGED <<shared, pc, recv_alive, send_alive, last, wire, http, srv, shown, catalog>>

\* broadcast_state: user.tx.send(msg.clone()) for one of users.values()
SendState(s, u) ==
    /\ crit[recv(s)].stage = "broadcast"
    /\ u \in crit[recv(s)].left
    /\ Len(queue[u]) < QueueDepth
    /\ queue' = [queue EXCEPT ![u] = TxSend(queue, u, crit[recv(s)].snap)]
    /\ crit' = [crit EXCEPT ![recv(s)].left = @ \ {u}]
    /\ UNCHANGED <<shared, pc, recv_alive, send_alive, last, wire, http, srv, shown, catalog>>

\* handle_client_msg: the end of the match arm, the write guard is dropped
UnlockVote(s) ==
    /\ crit[recv(s)].stage = "broadcast"
    /\ crit[recv(s)].left = {}
    /\ Leave(recv(s))
    /\ UNCHANGED <<shared, pc, recv_alive, send_alive, queue, last, wire, http, srv, shown, catalog>>

\* handle_socket, "Cleanup": state.write().await
LockCleanup(s) ==
    /\ pc[s] = "active"
    /\ ~recv_alive[s] \/ ~send_alive[s]
    /\ crit[conn(s)] = Idle
    /\ CanWrite
    /\ Enter(conn(s), "cleanup", "None", {}, <<0, 0>>)
    /\ UNCHANGED <<shared, pc, recv_alive, send_alive, queue, last, wire, http, srv, shown, catalog>>

\* handle_socket, "Cleanup": the two removes and the reset of the votes, the
\* guard is dropped
DoCleanup(s) ==
    /\ crit[conn(s)].stage = "cleanup"
    /\ users' = users \ {s}
    /\ actions' = ClearActions(MapRemove(actions, s))
    /\ pc' = [pc EXCEPT ![s] = "closed"]
    /\ Leave(conn(s))
    /\ UNCHANGED <<mangas, current_manga, current_page, recv_alive, send_alive, queue,
                   last, wire, http, srv, shown, catalog>>

\* heartbeat task: interval.tick() and state.read().await
LockHeartbeat ==
    /\ crit[heartbeat] = Idle
    /\ CanRead
    /\ Enter(heartbeat, "ping", "None", users, <<0, 0>>)
    /\ UNCHANGED <<shared, pc, recv_alive, send_alive, queue, last, wire, http, srv, shown, catalog>>

\* heartbeat task: user.tx.send(Message::Ping(..)) for one of users.values()
PingUser(u) ==
    /\ crit[heartbeat].stage = "ping"
    /\ u \in crit[heartbeat].left
    /\ Len(queue[u]) < QueueDepth
    /\ queue' = [queue EXCEPT ![u] = TxSend(queue, u, "ping")]
    /\ crit' = [crit EXCEPT ![heartbeat].left = @ \ {u}]
    /\ UNCHANGED <<shared, pc, recv_alive, send_alive, last, wire, http, srv, shown, catalog>>

\* heartbeat task: the end of the loop body, the read guard is dropped
UnlockHeartbeat ==
    /\ crit[heartbeat].stage = "ping"
    /\ crit[heartbeat].left = {}
    /\ Leave(heartbeat)
    /\ UNCHANGED <<shared, pc, recv_alive, send_alive, queue, last, wire, http, srv, shown, catalog>>

\* home_handler: state.read().await
LockHome ==
    /\ crit[web] = Idle
    /\ CanRead
    /\ Enter(web, "home", "None", {}, <<0, 0>>)
    /\ UNCHANGED <<shared, pc, recv_alive, send_alive, queue, last, wire, http, srv, shown, catalog>>

\* home_handler: get_client_state serialised under the read guard (a panic
\* on an empty list ends the request), the guard is dropped at the end of
\* the block
ReadHome ==
    /\ crit[web].stage = "home"
    /\ IF Len(mangas) = 0
       THEN /\ http' = [req |-> "home", manga |-> 0, page |-> 0,
                        result |-> home_response(mangas)]
            /\ Leave(web)
       ELSE /\ Enter(web, "render", "None", {},
                     get_client_state(current_manga, current_page))
            /\ UNCHANGED http
    /\ UNCHANGED <<shared, pc, recv_alive, send_alive, queue, last, wire, srv, shown, catalog>>

\* mutant: the page is rendered from the cursor as it is at render time
RenderHome_ReadsAgain ==
    /\ crit[web].stage = "render"
    /\ http' = [req |-> "home", manga |-> current_manga, page |-> current_page,
                result |-> home_response(mangas)]
    /\ Leave(web)
    /\ UNCHANGED <<shared, pc, recv_alive, send_alive, queue, last, wire, srv, shown, catalog>>

\* home_handler: Html(format!(..)) around the string built under the guard
RenderHome ==
    /\ crit[web].stage = "render"
    /\ http' = [req |-> "home", manga |-> crit[web].snap[1], page |-> crit[web].snap[2],
                result |-> home_response(mangas)]
    /\ Leave(web)
    /\ UNCHANGED <<shared, pc, recv_alive, send_alive, queue, last, wire, srv, shown, catalog>>

\* image_handler: state.read().await, for /image?manga=m&page=p
LockImage(m, p) ==
    /\ crit[web] = Idle
    /\ CanRead
    /\ Enter(web, "image", "None", {}, <<m, p>>)
    /\ UNCHANGED <<shared, pc, recv_alive, send_alive, queue, last, wire, http, srv, shown, catalog>>

\* image_handler: the two index checks under the read guard; an early
\* return or the end of the block (the path cloned) drops the guard
CheckImage ==
    /\ crit[web].stage = "image"
    /\ LET m == crit[web].snap[1]
           p == crit[web].snap[2]
       IN  IF image_response(mangas, m, p, TRUE) = "image/webp"
           THEN /\ Enter(web, "read_file", "None", {}, <<m, p>>)
                /\ UNCHANGED http
           ELSE /\ http' = [req |-> "image", manga |-> m, page |-> p,
                            result |-> image_response(mangas, m, p, TRUE)]
                /\ Leave(web)
    /\ UNCHANGED <<shared, pc, recv_alive, send_alive, queue, last, wire, srv, shown, catalog>>

\* image_handler: tokio::fs::read(path).await and the response
ReadFile(readable) ==
    /\ crit[web].stage = "read_file"
    /\ http' = [req |-> "image", manga |-> crit[web].snap[1], page |-> crit[web].snap[2],
                result |-> image_response(mangas, crit[web].snap[1],
                                          crit[web].snap[2], readable)]
    /\ Leave(web)
    /\ UNCHANGED <<shared, pc, recv_alive, send_alive, queue, last, wire, srv, shown, catalog>>

\* recv_task is at receiver.next(), not inside handle_client_msg
Receiving(s) == crit[recv(s)] = Idle

NextLock ==
    \/ \E s \in Sessions : LockRegister(s)
    \/ \E s \in Sessions : DoRegister(s)
    \/ \E s \in Sessions : LockInitial(s)
    \/ \E s \in Sessions : ReadInitial(s)
    \/ \E s \in Sessions, kind \in {"initial", "failed"} : WriteInitial(s, kind)
    \/ \E s \in Sessions, intent \in Intents : LockVote(s, intent)
    \/ \E s \in Sessions : InsertVote(s)
    \/ \E s \in Sessions : CheckVote(s)
    \/ \E s \in Sessions, u \in Sessions : SendState(s, u)
    \/ \E s \in Sessions : UnlockVote(s)
    \/ \E s \in Sessions : LockCleanup(s)
    \/ \E s \in Sessions : DoCleanup(s)
    \/ LockHeartbeat
    \/ \E u \in Sessions : PingUser(u)
    \/ UnlockHeartbeat
    \/ \E s \in Sessions : Receiving(s) /\ RecvEnd(s)
    \/ \E s \in Sessions : SendFlush(s)
    \/ \E s \in Sessions : SendFail(s)
    \/ \E s \in Sessions : SendEnd(s)

SpecLock == InitPair /\ [][NextLock]_vars

SpecShown == InitShown /\ [][NextLock]_vars

\* the requests of the scenarios that follow the lock: an index inside and
\* an index past the end, for the item and for the page
BoundaryMangas == {0, MaxMangas}
BoundaryPages == {0, MaxPages}

\* the steps that hold the lock, with those of the HTTP handlers
NextBoundary ==
    \/ NextLock
    \/ LockHome
    \/ ReadHome
    \/ RenderHome
    \/ \E m \in BoundaryMangas, p \in BoundaryPages : LockImage(m, p)
    \/ CheckImage
    \/ \E readable \in BOOLEAN : ReadFile(readable)

SpecBoundary == InitIO /\ [][NextBoundary]_vars

\* the steps that hold the lock, with those of image_handler for the first
\* page of the first item
NextStall ==
    \/ NextLock
    \/ LockImage(0, 0)
    \/ CheckImage
    \/ \E readable \in BOOLEAN : ReadFile(readable)

\* A collection of one item with all but one page, served to the last two
\* connections of the process, the earlier ones closed.
InitStall ==
    /\ mangas = <<MaxPages - 1>>
    /\ current_manga = 0
    /\ current_page = 0
    /\ users = {}
    /\ actions = << >>
    /\ pc = [s \in Sessions |-> IF s >= MaxSessions - 1 THEN "new" ELSE "closed"]
    /\ recv_alive = [s \in Sessions |-> FALSE]
    /\ send_alive = [s \in Sessions |-> FALSE]
    /\ queue = [s \in Sessions |-> << >>]
    /\ last = Step("init", 0, "None", "None", {})
    /\ wire = [s \in Sessions |-> IF s >= MaxSessions - 1 THEN NoFrames ELSE InitialSent]
    /\ http = NoRequest
    /\ crit = [t \in Tasks |-> Idle]
    /\ srv = Serving
    /\ shown = << >>
    /\ CatalogIdle

SpecStall == InitStall /\ [][NextStall]_vars

\* ---- waiting for the lock -------------------------------------------------

\* handle_socket has started for an accepted connection and calls
\* state.write() for "Register user"
WantRegister(s) ==
    /\ srv.accepting
    /\ pc[s] = "new"
    /\ \A t \in Sessions : t < s => pc[t] # "new"
    /\ crit[conn(s)] = Idle
    /\ Enter(conn(s), "want_register", "None", {}, <<0, 0>>)
    /\ UNCHANGED <<shared, pc, recv_alive, send_alive, queue, last, wire, http, srv, shown, catalog>>

\* the write guard is granted to handle_socket
GrantRegister(s) ==
    /\ crit[conn(s)].stage = "want_register"
    /\ CanWrite
    /\ Enter(conn(s), "register", "None", {}, <<0, 0>>)
    /\ UNCHANGED <<shared, pc, recv_alive, send_alive, queue, last, wire, http, srv, shown, catalog>>

\* recv_task has received a next or prev and handle_client_msg calls
\* state.write()
WantVote(s, intent) ==
    /\ recv_alive[s]
    /\ crit[recv(s)] = Idle
    /\ Enter(recv(s), "want_vote", intent, {}, <<0, 0>>)
    /\ UNCHANGED <<shared, pc, recv_alive, send_alive, queue, last, wire, http, srv, shown, catalog>>

\* the write guard is granted to handle_client_msg
GrantVote(s) ==
    /\ crit[recv(s)].stage = "want_vote"
    /\ CanWrite
    /\ Enter(recv(s), "vote", crit[recv(s)].intent, {}, <<0, 0>>)
    /\ UNCHANGED <<shared, pc, recv_alive, send_alive, queue, last, wire, http, srv, shown, catalog>>

\* heartbeat task: interval.tick() has returned, the task calls state.read()
WantPing ==
    /\ crit[heartbeat] = Idle
    /\ Enter(heartbeat, "want_ping", "None", {}, <<0, 0>>)
    /\ UNCHANGED <<shared, pc, recv_alive, send_alive, queue, last, wire, http, srv, shown, catalog>>

\* the read guard is granted to the heartbeat task
GrantPing ==
    /\ crit[heartbeat].stage = "want_ping"
    /\ CanRead
    /\ Enter(heartbeat, "ping", "None", users, <<0, 0>>)
    /\ UNCHANGED <<shared, pc, recv_alive, send_alive, queue, last, wire, http, srv, shown, catalog>>

\* the steps that hold the lock, each request for it a step of its own
NextWait ==
    \/ \E s \in Sessions : WantRegister(s)
    \/ \E s \in Sessions : GrantRegister(s)
    \/ \E s \in Sessions : DoRegister(s)
    \/ \E s \in Sessions : LockInitial(s)
    \/ \E s \in Sessions : ReadInitial(s)
    \/ \E s \in Sessions, kind \in {"initial", "failed"} : WriteInitial(s, kind)
    \/ \E s \in Sessions, intent \in Intents : WantVote(s, intent)
    \/ \E s \in Sessions : GrantVote(s)
    \/ \E s \in Sessions : InsertVote(s)
    \/ \E s \in Sessions : CheckVote(s)
    \/ \E s \in Sessions, u \in Sessions : SendState(s, u)
    \/ \E s \in Sessions : UnlockVote(s)
    \/ \E s \in Sessions : LockCleanup(s)
    \/ \E s \in Sessions : DoCleanup(s)
    \/ WantPing
    \/ GrantPing
    \/ \E u \in Sessions : PingUser(u)
    \/ UnlockHeartbeat
    \/ \E s \in Sessions : Receiving(s) /\ RecvEnd(s)
    \/ \E s \in Sessions : SendFlush(s)
    \/ \E s \in Sessions : SendFail(s)
    \/ \E s \in Sessions : SendEnd(s)

\* the step of the task t inside a section that holds the lock
InSection(t) ==
    \/ \E s \in Sessions :
          /\ t = conn(s)
          /\ DoRegister(s) \/ ReadInitial(s) \/ DoCleanup(s)
    \/ \E s \in Sessions :
          /\ t = recv(s)
          /\ InsertVote(s) \/ CheckVote(s) \/ UnlockVote(s)
               \/ \E u \in Sessions : SendState(s, u)
    \/ /\ t = heartbeat
       /\ UnlockHeartbeat \/ \E u \in Sessions : PingUser(u)

\* the connections that call in the scenario of the waiters: the last one
Callers == {MaxSessions}

\* The tasks are tasks of the multi-thread runtime: one that can run is
\* polled. tokio's RwLock queues its waiters in order of arrival: a waiter
\* is granted the lock once those before it have released.
FairLock ==
    /\ \A s \in Callers : WF_vars(InSection(conn(s))) /\ WF_vars(InSection(recv(s)))
    /\ WF_vars(InSection(heartbeat))
    /\ \A s \in Callers : SF_vars(GrantRegister(s))
    /\ \A s \in Callers : SF_vars(LockInitial(s))
    /\ \A s \in Callers : SF_vars(GrantVote(s))
    /\ \A s \in Callers : SF_vars(LockCleanup(s))
    /\ SF_vars(GrantPing)

\* A collection of one item with all but one page, served to the last
\* connection of the process, the earlier ones closed.
InitSolo ==
    /\ mangas = <<MaxPages - 1>>
    /\ current_manga = 0
    /\ current_page = 0
    /\ users = {}
    /\ actions = << >>
    /\ pc = [s \in Sessions |-> IF s \in Callers THEN "new" ELSE "closed"]
    /\ recv_alive = [s \in Sessions |-> FALSE]
    /\ send_alive = [s \in Sessions |-> FALSE]
    /\ queue = [s \in Sessions |-> << >>]
    /\ last = Step("init", 0, "None", "None", {})
    /\ wire = [s \in Sessions |-> IF s \in Callers THEN NoFrames ELSE InitialSent]
    /\ http = NoRequest
    /\ crit = [t \in Tasks |-> Idle]
    /\ srv = Serving
    /\ shown = << >>
    /\ CatalogIdle

SpecWait == InitSolo /\ [][NextWait]_vars /\ FairLock

\* ---- the catalog backend: DataStorage and delete_cascade -----------------

\* the web service, left alone by the catalog
service == <<shared, pc, recv_alive, send_alive, queue, last, wire, http, crit, srv, shown>>

\* GuiCommand: the two cascading deletes, a command without a cascade, Exit
Commands ==
    {[op |-> "DeleteMangaGroup", id |-> g] : g \in GroupIds}
        \cup {[op |-> "DeleteMangaEntry", id |-> e] : e \in EntryIds}
        \cup {[op |-> "UpdateMangaGroups", id |-> 0], [op |-> "Exit", id |-> 0]}

\* SELECT * FROM manga_entries WHERE manga_group = g
EntriesOf(d, g) == {e \in DOMAIN d.entries : d.entries[e] = g}

\* SELECT * FROM manga_images WHERE manga = e
ImagesOf(d, e) == {i \in DOMAIN d.images : d.images[i] = e}

\* the catalogs within the bounds whose rows refer to rows that exist; the
\* file of an image may be missing from the disk
Catalogs ==
    {d \in [groups : SUBSET GroupIds,
            entries : UNION {[E -> GroupIds] : E \in SUBSET EntryIds},
            images : UNION {[I -> EntryIds] : I \in SUBSET ImageIds},
            files : SUBSET ImageIds] :
        /\ \A e \in DOMAIN d.entries : d.entries[e] \in d.groups
        /\ \A i \in DOMAIN d.images : d.images[i] \in DOMAIN d.entries
        /\ d.files \subseteq DOMAIN d.images}

\* the GUI sends a command (MangaUI, gui_send.send)
SendCommand(cmd) ==
    /\ Len(backend.log) + Len(gui_recv) < MaxCmds
    /\ gui_recv' = Append(gui_recv, cmd)
    /\ UNCHANGED <<service, db, job, backend>>

\* mutant: the loop goes on receiving after Exit
RecvCommand_IgnoresExit ==
    /\ backend.at = "recv"
    /\ gui_recv # << >>
    /\ LET cmd == Head(gui_recv)
       IN  /\ gui_recv' = Tail(gui_recv)
           /\ IF cmd.op = "Exit"
              THEN /\ backend' = [backend EXCEPT !.log = Append(@, cmd), !.exiting = TRUE]
                   /\ UNCHANGED <<db, job>>
              ELSE IF cmd.op = "UpdateMangaGroups"
              THEN /\ backend' = [backend EXCEPT !.log = Append(@, cmd),
                                                 !.manga_groups = db.groups]
                   /\ UNCHANGED <<db, job>>
              ELSE IF cmd.op = "DeleteMangaGroup"
              THEN /\ backend' = [backend EXCEPT !.log = Append(@, cmd), !.at = "busy"]
                   /\ job' = [NoJob EXCEPT !.stage = "entries", !.kind = "group",
                                           !.group = cmd.id,
                                           !.entries = EntriesOf(db, cmd.id),
                                           !.all = EntriesOf(db, cmd.id)]
                   /\ UNCHANGED db
              ELSE /\ backend' = [backend EXCEPT !.log = Append(@, cmd), !.at = "busy"]
                   /\ job' = [NoJob EXCEPT !.stage = "images", !.kind = "entry",
                                           !.entry = cmd.id,
                                           !.images = ImagesOf(db, cmd.id)]
                   /\ UNCHANGED db
    /\ UNCHANGED service

\* process_gui_commands: recv_timeout returns the oldest command and its
\* match arm starts: Exit sets exiting and breaks, UpdateMangaGroups reads
\* the groups, a delete selects the children of its row
RecvCommand ==
    /\ backend.at = "recv"
    /\ gui_recv # << >>
    /\ LET cmd == Head(gui_recv)
       IN  /\ gui_recv' = Tail(gui_recv)
           /\ IF cmd.op = "Exit"
              THEN /\ backend' = [backend EXCEPT !.log = Append(@, cmd), !.exiting = TRUE,
                                                 !.at = "check"]
                   /\ UNCHANGED <<db, job>>
              ELSE IF cmd.op = "UpdateMangaGroups"
              THEN /\ backend' = [backend EXCEPT !.log = Append(@, cmd),
                                                 !.manga_groups = db.groups]
                   /\ UNCHANGED <<db, job>>
              ELSE IF cmd.op = "DeleteMangaGroup"
              THEN /\ backend' = [backend EXCEPT !.log = Append(@, cmd), !.at = "busy"]
                   /\ job' = [NoJob EXCEPT !.stage = "entries", !.kind = "group",
                                           !.group = cmd.id,
                                           !.entries = EntriesOf(db, cmd.id),
                                           !.all = EntriesOf(db, cmd.id)]
                   /\ UNCHANGED db
              ELSE /\ backend' = [backend EXCEPT !.log = Append(@, cmd), !.at = "busy"]
                   /\ job' = [NoJob EXCEPT !.stage = "images", !.kind = "entry",
                                           !.entry = cmd.id,
                                           !.images = ImagesOf(db, cmd.id)]
                   /\ UNCHANGED db
    /\ UNCHANGED service

\* process_gui_commands: recv_timeout finds no command for 500 ms, the
\* while let ends
RecvTimeout ==
    /\ backend.at = "recv"
    /\ gui_recv = << >>
    /\ backend' = [backend EXCEPT !.at = "check"]
    /\ UNCHANGED <<service, db, job, gui_recv>>

\* run: `if self.exiting { break; }` after process_gui_commands
CheckExiting ==
    /\ backend.at = "check"
    /\ backend' = [backend EXCEPT !.at = IF backend.exiting THEN "stopped" ELSE "recv"]
    /\ UNCHANGED <<service, db, job, gui_recv>>

\* MangaGroup::delete_cascade: the next of group_entries, whose images are
\* selected by MangaEntry::delete_cascade
PickEntry(e) ==
    /\ job.stage = "entries"
    /\ e \in job.entries
    /\ job' = [job EXCEPT !.stage = "images", !.entry = e, !.images = ImagesOf(db, e)]
    /\ UNCHANGED <<service, db, gui_recv, backend>>

\* MangaImage::delete_cascade: std::fs::remove_file(..).unwrap(), a panic
\* when the file is not there
RemoveFile(i) ==
    /\ job.stage = "images"
    /\ i \in job.images
    /\ IF i \in db.files
       THEN /\ db' = [db EXCEPT !.files = @ \ {i}]
            /\ job' = [job EXCEPT !.stage = "row", !.image = i]
            /\ UNCHANGED backend
       ELSE /\ job' = [job EXCEPT !.stage = "panicked", !.image = i]
            /\ backend' = [backend EXCEPT !.at = "panicked"]
            /\ UNCHANGED db
    /\ UNCHANGED <<service, gui_recv>>

\* MangaImage::delete_cascade: DELETE FROM manga_images WHERE id = ?
DeleteImageRow ==
    /\ job.stage = "row"
    /\ db' = [db EXCEPT !.images = MapRemove(@, job.image)]
    /\ job' = [job EXCEPT !.stage = "images", !.images = @ \ {job.image},
                          !.gone = @ \cup {job.image}]
    /\ UNCHANGED <<service, gui_recv, backend>>

\* mutant: the entry row is deleted before its images
DeleteEntryRow_BeforeImages ==
    /\ job.stage = "images"
    /\ db' = [db EXCEPT !.entries = MapRemove(@, job.entry)]
    /\ IF job.kind = "group"
       THEN /\ job' = [job EXCEPT !.stage = "entries", !.entries = @ \ {job.entry},
                                  !.images = {}]
            /\ UNCHANGED backend
       ELSE /\ job' = [job EXCEPT !.stage = "done", !.images = {}]
            /\ backend' = [backend EXCEPT !.at = "recv"]
    /\ UNCHANGED <<service, gui_recv>>

\* MangaEntry::delete_cascade: after the loop over manga_images, DELETE FROM
\* manga_entries WHERE id = ?; the command is over when it was the entry's
DeleteEntryRow ==
    /\ job.stage = "images"
    /\ job.images = {}
    /\ db' = [db EXCEPT !.entries = MapRemove(@, job.entry)]
    /\ IF job.kind = "group"
       THEN /\ job' = [job EXCEPT !.stage = "entries", !.entries = @ \ {job.entry}]
            /\ UNCHANGED backend
       ELSE /\ job' = [job EXCEPT !.stage = "done"]
            /\ backend' = [backend EXCEPT !.at = "recv"]
    /\ UNCHANGED <<service, gui_recv>>

\* MangaGroup::delete_cascade: after the loop over group_entries, DELETE
\* FROM manga_groups WHERE id = ?; the command is over
DeleteGroupRow ==
    /\ job.stage = "entries"
    /\ job.entries = {}
    /\ db' = [db EXCEPT !.groups = @ \ {job.group}]
    /\ job' = [job EXCEPT !.stage = "done"]
    /\ backend' = [backend EXCEPT !.at = "recv"]
    /\ UNCHANGED <<service, gui_recv>>

\* the GUI and the backend
NextCatalog ==
    \/ \E cmd \in Commands : SendCommand(cmd)
    \/ RecvCommand
    \/ RecvTimeout
    \/ CheckExiting
    \/ \E e \in EntryIds : PickEntry(e)
    \/ \E i \in ImageIds : RemoveFile(i)
    \/ DeleteImageRow
    \/ DeleteEntryRow
    \/ DeleteGroupRow

\* Any catalog within the bounds; run has read the groups and has entered
\* its loop; the GUI has sent nothing yet.
InitCatalog ==
    /\ PairStart
    /\ shown = << >>
    /\ db \in Catalogs
    /\ job = NoJob
    /\ gui_recv = << >>
    /\ backend = [Fresh EXCEPT !.manga_groups = db.groups]

SpecCatalog == InitCatalog /\ [][NextCatalog]_vars

\* run is polled to its end by block_on: the check of exiting after
\* process_gui_commands is always reached
SpecBackend == InitCatalog /\ [][NextCatalog]_vars /\ WF_vars(CheckExiting)

\* every entry row names a group row and every image row an entry row
NoOrphans(d) ==
    /\ \A e \in DOMAIN d.entries : d.entries[e] \in d.groups
    /\ \A i \in DOMAIN d.images : d.images[i] \in DOMAIN d.entries

\* the command the backend received was Exit
ExitReceived == \E k \in 1..Len(backend.log) : backend.log[k].op = "Exit"

\* the commands sent so far, in the order of their sending
Sent == backend.log \o gui_recv

\* C36: a cascading delete removes children before parents and leaves no
\* orphans: an entry row is deleted only when no image row of it remains, a
\* group row only when no entry row of it remains, no state has a row whose
\* parent row is gone, and when delete_cascade has completed the row it was
\* called on, every entry it selected and every image of these are gone.
C36_CascadeDeletesChildrenFirst ==
    /\ [](NoOrphans(db))
    /\ [][db'.entries # db.entries =>
             /\ job.entry \in DOMAIN db.entries
             /\ db'.entries = MapRemove(db.entries, job.entry)
             /\ ImagesOf(db, job.entry) = {}
             /\ db'.groups = db.groups]_vars
    /\ [][db'.groups # db.groups =>
             /\ db'.groups = db.groups \ {job.group}
             /\ EntriesOf(db, job.group) = {}
             /\ \A e \in job.all : e \notin DOMAIN db.entries /\ ImagesOf(db, e) = {}]_vars
    /\ [](job.stage = "done" =>
             IF job.kind = "group"
             THEN /\ job.group \notin db.groups
                  /\ EntriesOf(db, job.group) = {}
                  /\ \A i \in DOMAIN db.images : db.images[i] \notin job.all
                  /\ job.gone \cap DOMAIN db.images = {}
             ELSE /\ job.entry \notin DOMAIN db.entries
                  /\ ImagesOf(db, job.entry) = {}
                  /\ job.gone \cap DOMAIN db.images = {})

\* a group with all the entries and all the images of the bounds was deleted
\* and another group is left
C36_Witness ==
    /\ job.stage = "done"
    /\ job.kind = "group"
    /\ Cardinality(job.all) = MaxEntries
    /\ Cardinality(job.gone) = MaxImages
    /\ db.groups # {}

\* C37: the backend processes the commands one at a time in the order of
\* their sending; after Exit it processes no further command and its run
\* loop ends; the run loop ends only after an Exit.
C37_ExitEndsTheLoop ==
    /\ [][\/ Sent' = Sent
          \/ backend'.log = backend.log /\ \E cmd \in Commands : Sent' = Append(Sent, cmd)]_vars
    /\ [][backend'.log # backend.log =>
             /\ backend.at = "recv"
             /\ job.stage \in {"idle", "done"}
             /\ gui_recv # << >>
             /\ backend'.log = Append(backend.log, Head(gui_recv))]_vars
    /\ [][(db' # db \/ job' # job \/ backend'.manga_groups # backend.manga_groups) =>
             /\ backend'.log # << >>
             /\ ~ExitReceived
             /\ backend'.log # backend.log \/ backend.at = "busy"]_vars
    /\ [][ExitReceived => backend'.log = backend.log /\ db' = db /\ job' = job]_vars
    /\ [](backend.at = "stopped" => ExitReceived /\ backend.exiting)
    /\ [][backend.at = "stopped" => backend' = backend]_vars
    /\ (ExitReceived ~> backend.at = "stopped")

\* the loop ended on the Exit sent after a delete, with a delete behind it
\* that stays in the channel
C37_Witness ==
    /\ backend.at = "stopped"
    /\ Len(backend.log) = 2
    /\ backend.log[1].op = "DeleteMangaGroup"
    /\ backend.log[2].op = "Exit"
    /\ job.stage = "done"
    /\ gui_recv # << >>
    /\ Head(gui_recv).op = "DeleteMangaEntry"
    /\ Head(gui_recv).id \in DOMAIN db.entries

TypeOK ==
    /\ mangas \in Collections
    /\ users \subseteq Sessions
    /\ DOMAIN actions \subseteq Sessions
    /\ \A k \in DOMAIN actions : actions[k] \in Votes
    /\ \A s \in Sessions : Len(queue[s]) <= QueueDepth

\* ---- properties ----------------------------------------------------------

\* every registered viewer holds the vote a
Unanimous(votes, usrs, a) ==
    usrs # {} /\ \A u \in usrs : u \in DOMAIN votes /\ votes[u] = a

\* the step just taken is a vote; VotesCast is the vote map consensus was
\* evaluated on (the map before the step with the caster's vote written)
VoteStep == last'.op = "vote"
VotesCast == MapInsert(actions, last'.id, last'.intent)
Navigated == last'.op = "vote" /\ last'.applied # "None"
CursorUnchanged == current_manga' = current_manga /\ current_page' = current_page

\* C1: a vote navigates if and only if the registered viewers are not none,
\* each holds a vote and all these votes are equal; the agreed vote is the
\* direction applied.
C1_NavigatesIffUnanimous ==
    [][VoteStep =>
         /\ (last'.applied # "None") <=> (\E a \in Intents : Unanimous(VotesCast, users, a))
         /\ last'.applied # "None" => Unanimous(VotesCast, users, last'.applied)]_vars

\* every item of the collection has a page (section 3 of the spec)
WellFormed == Len(mangas) > 0 /\ \A i \in 1..Len(mangas) : mangas[i] >= 1

\* C2: for a collection that is not empty and whose items all have a page,
\* the cursor names an item of the collection and a page of that item.
C2_CursorInBounds ==
    WellFormed =>
        /\ 0 <= current_manga /\ current_manga < Len(mangas)
        /\ 0 <= current_page /\ current_page < mangas[current_manga + 1]

\* the cursor stands on the last page of the last of two items after a vote moved it
C2_Witness ==
    /\ mangas = <<3, 2>>
    /\ current_manga = 1 /\ current_page = 1
    /\ last.op = "vote" /\ last.applied = "Next"

\* C3: after a register the new viewer holds no vote and neither does any
\* other registered viewer.
C3_RegisterResetsVotes ==
    last.op = "register" =>
        /\ last.id \in users
        /\ actions[last.id] = "None"
        /\ \A u \in users \ {last.id} : actions[u] = "None"

\* C4: after the cleanup of a session its id is in neither the registry nor
\* the vote map, and every remaining viewer holds no vote.
C4_UnregisterRemovesAndResets ==
    last.op = "cleanup" =>
        /\ last.id \notin users
        /\ last.id \notin DOMAIN actions
        /\ \A u \in users : u \in DOMAIN actions /\ actions[u] = "None"

\* a cleanup has reset the pending vote of a viewer that stays registered
C4_Witness ==
    /\ last.op = "cleanup"
    /\ last.cleared \cap users # {}

\* C5: a cleanup leaves the cursor where it was and enqueues nothing.
C5_UnregisterNeverNavigates ==
    [][last'.op = "cleanup" => CursorUnchanged /\ queue' = queue]_vars

\* scenario E: the only remaining viewer had a pending vote, which the
\* cleanup of the other cleared; nothing was broadcast to it
C5_Witness ==
    /\ last.op = "cleanup"
    /\ Cardinality(users) = 1
    /\ last.cleared = users
    /\ \A u \in users : actions[u] = "None" /\ queue[u] = << >> /\ pc[u] = "active"
    /\ current_manga = 0 /\ current_page = 0

\* C6: a navigation, a boundary no-op included, leaves every vote none and
\* appends one snapshot of the new cursor to the queue of every registered
\* viewer.
C6_NavigationClearsAndBroadcasts ==
    [][Navigated =>
         /\ \A k \in DOMAIN actions' : actions'[k] = "None"
         /\ \A u \in users :
              queue'[u] = Append(queue[u], <<current_manga', current_page'>>)]_vars

\* C6 as amended: the snapshot is appended for every registered viewer
\* whose channel still has its receiver; the send to a viewer whose send_task
\* is over fails and is ignored; no other queue changes.
C6_NavigationClearsAndBroadcastsToOpenQueues ==
    [][Navigated =>
         /\ \A k \in DOMAIN actions' : actions'[k] = "None"
         /\ \A u \in users :
              queue'[u] = IF pc[u] = "registered" \/ send_alive[u]
                          THEN Append(queue[u], <<current_manga', current_page'>>)
                          ELSE queue[u]
         /\ \A s \in Sessions \ users : queue'[s] = queue[s]]_vars

\* two viewers agreed on prev at the start of the collection: the cursor
\* stayed, both votes are none and both queues hold the snapshot
C6_Witness ==
    /\ last.op = "vote" /\ last.applied = "Prev"
    /\ current_manga = 0 /\ current_page = 0
    /\ Cardinality(users) = 2
    /\ last.id \in users
    /\ \A u \in users : actions[u] = "None" /\ queue[u] = << <<0, 0>> >>

\* C7: an applied advance moves to the next page of the item, from its last
\* page to the first page of the next item, and nowhere from the last page
\* of the last item (the current item having a page).
C7_AdvanceOneStep ==
    [][(last'.op = "vote" /\ last'.applied = "Next" /\ mangas[current_manga + 1] >= 1) =>
         IF current_page # mangas[current_manga + 1] - 1
         THEN current_manga' = current_manga /\ current_page' = current_page + 1
         ELSE IF current_manga # Len(mangas) - 1
              THEN current_manga' = current_manga + 1 /\ current_page' = 0
              ELSE CursorUnchanged]_vars

\* scenario A: items of 3 and 2 pages, an advance has arrived at (1,0)
C7_Witness ==
    /\ mangas = <<3, 2>>
    /\ last.op = "vote" /\ last.applied = "Next"
    /\ current_manga = 1 /\ current_page = 0

\* C8: an applied retreat moves to the previous page of the item, from its
\* first page to the last page of the previous item (that item having a
\* page), and nowhere from the first page of the first item.
C8_RetreatOneStep ==
    [][(last'.op = "vote" /\ last'.applied = "Prev") =>
         IF current_page > 0
         THEN current_manga' = current_manga /\ current_page' = current_page - 1
         ELSE IF current_manga > 0
              THEN mangas[current_manga] >= 1 =>
                     /\ current_manga' = current_manga - 1
                     /\ current_page' = mangas[current_manga] - 1
              ELSE CursorUnchanged]_vars

\* scenario C: items of 3 and 2 pages, a retreat has arrived at (0,2)
C8_Witness ==
    /\ mangas = <<3, 2>>
    /\ last.op = "vote" /\ last.applied = "Prev"
    /\ current_manga = 0 /\ current_page = 2

\* C9: a vote that leaves a registered viewer without a vote, or the votes
\* unequal, only records the caster's vote: cursor, other votes, queues,
\* registry and sessions stay as they were.
C9_NoConsensusOnlyRecordsVote ==
    [][(VoteStep /\ ~(\E a \in Intents : Unanimous(VotesCast, users, a))) =>
         /\ last'.applied = "None"
         /\ CursorUnchanged
         /\ actions' = VotesCast
         /\ queue' = queue
         /\ users' = users
         /\ pc' = pc /\ recv_alive' = recv_alive /\ send_alive' = send_alive]_vars

\* scenario B: at (0,2) two viewers hold next and prev, the cursor stayed
C9_Witness ==
    /\ mangas = <<3, 2>>
    /\ current_manga = 0 /\ current_page = 2
    /\ last.op = "vote" /\ last.applied = "None"
    /\ Cardinality(users) = 2
    /\ {actions[u] : u \in users} = {"Next", "Prev"}
    /\ \A u \in users : queue[u] = << >>

\* C10: a vote for an id that is not registered changes neither the vote
\* map nor the cursor nor the registry.
C10_UnregisteredVoteIsNoOp ==
    [][(VoteStep /\ last'.id \notin users) =>
         /\ actions' = actions
         /\ CursorUnchanged
         /\ users' = users
         /\ queue' = queue]_vars

\* ---- sessions, pumps and the heartbeat ------------------------------------

\* the step just taken is a message of session s handled by its inbound pump
Handled(s) == last'.op \in {"vote", "drop"} /\ last'.id = s

\* C13: once a session is closed and unregistered, its pumps handle no
\* further inbound message and change the shared state no more.
C13_ClosedSessionIsSilent ==
    [][\A s \in Sessions : pc[s] = "closed" => ~Handled(s)]_vars

\* the step just taken is the end of a pump of session s or its cleanup
TransportEnd(s) ==
    \/ recv_alive[s] /\ ~recv_alive'[s]
    \/ send_alive[s] /\ ~send_alive'[s]
    \/ last'.op = "cleanup" /\ last'.id = s

\* C19: the end of a pump of a session, and the cleanup that follows, remove
\* no other viewer, close no other viewer's queue, leave the other sessions
\* and the cursor as they were; the cleanup unregisters the session and
\* resets the votes that remain.
C19_FailureEndsOnlyThatSession ==
    [][\A s \in Sessions : TransportEnd(s) =>
         /\ \A t \in Sessions \ {s} :
               /\ (t \in users) = (t \in users')
               /\ RxOpen(t)' = RxOpen(t)
               /\ queue'[t] = queue[t]
               /\ pc'[t] = pc[t]
               /\ recv_alive'[t] = recv_alive[t]
               /\ send_alive'[t] = send_alive[t]
         /\ CursorUnchanged
         /\ (last'.op = "cleanup") =>
               /\ s \notin users'
               /\ \A k \in DOMAIN actions' : actions'[k] = "None"]_vars

\* a session was cleaned up after its outbound pump failed while another
\* viewer, whose vote was reset, stays registered with both pumps running
C19_Witness ==
    /\ last.op = "cleanup"
    /\ last.cleared # {}
    /\ pc[last.id] = "closed"
    /\ \E t \in users : /\ t # last.id
                        /\ t \in last.cleared
                        /\ pc[t] = "active"
                        /\ recv_alive[t] /\ send_alive[t]
                        /\ actions[t] = "None"

\* C20: a heartbeat tick appends one ping to the queue of every registered
\* viewer whose queue is open and changes nothing else; a viewer leaves the
\* registry only in the cleanup of its own session.
C20_HeartbeatOnlyPings ==
    [][/\ (last'.op = "heartbeat") =>
            /\ \A s \in Sessions :
                  queue'[s] = IF s \in users /\ RxOpen(s)
                              THEN Append(queue[s], "ping")
                              ELSE queue[s]
            /\ shared' = shared
            /\ pc' = pc /\ recv_alive' = recv_alive /\ send_alive' = send_alive
       /\ \A s \in users \ users' : last'.op = "cleanup" /\ last'.id = s]_vars

\* a tick reached one viewer's queue and skipped the closed queue of another
\* viewer, who stays registered
C20_Witness ==
    /\ last.op = "heartbeat"
    /\ \E s \in users : queue[s] = <<"ping">>
    /\ \E t \in users : pc[t] = "active" /\ ~RxOpen(t) /\ queue[t] = << >>

\* the sessions whose handle_socket is running: registered, not yet cleaned up
OpenSessions == {s \in Sessions : pc[s] \in {"registered", "active"}}

\* C15: at every point the registry holds as many viewers as there are open
\* sessions.
C15_RegistryCountsOpenSessions ==
    Cardinality(users) = Cardinality(OpenSessions)

\* with a collection that is not empty the registry is the set of the open
\* sessions
RegistryIsOpenSessionsWhenServable ==
    mangas # << >> => users = OpenSessions

\* a pump of session s is over and handle_socket has not cleaned up yet
PumpOver(s) == pc[s] = "active" /\ (~recv_alive[s] \/ ~send_alive[s])

\* the step just taken is the cleanup of session s
CleanupStep(s) == last'.op = "cleanup" /\ last'.id = s

\* C14: the cleanup of a session runs only after one of its pumps is over,
\* removes the session from the registry and the vote map and closes it; a
\* closed session stays closed and is not cleaned up again; and a session
\* with a pump over is eventually cleaned up.
C14_UnregisterExactlyOnce ==
    /\ [][\A s \in Sessions :
            /\ CleanupStep(s) =>
                  /\ PumpOver(s)
                  /\ s \in users /\ s \notin users'
                  /\ s \notin DOMAIN actions'
                  /\ \A k \in DOMAIN actions' : actions'[k] = "None"
                  /\ pc'[s] = "closed"
            /\ pc[s] = "closed" => pc'[s] = "closed" /\ ~CleanupStep(s)]_vars
    /\ \A s \in Sessions : PumpOver(s) ~> (pc[s] = "closed" /\ s \notin users)

\* a session whose two pumps both ended has just been cleaned up, while the
\* other session is still registered
C14_Witness ==
    /\ last.op = "cleanup"
    /\ pc[last.id] = "closed"
    /\ ~recv_alive[last.id] /\ ~send_alive[last.id]
    /\ last.id \notin users
    /\ users # {}

\* what holds of the socket of every session, whether or not the write of the
\* initial state succeeded: the write is the first thing attempted on the
\* socket, by a registered session whose pumps are not running yet, at most
\* one initial state is written, and the inbound pump runs only afterwards
InitialWriteComesFirst(s) ==
    /\ wire'[s].first \in {"none", "initial", "failed"}
    /\ wire'[s].initials <= 1
    /\ (wire[s] = NoFrames /\ wire'[s] # NoFrames) =>
          pc[s] = "registered" /\ s \in users /\ ~recv_alive[s] /\ ~send_alive[s]
    /\ recv_alive'[s] => wire'[s] # NoFrames
    /\ Handled(s) => wire[s] # NoFrames

WellFormedVote(f) ==
    f.text /\ f.json /\ f.type \in {"next", "prev"} /\ f.uuid # "absent"

\* C17: a frame that is not a well-formed next or prev message changes no
\* vote, cursor or registry entry, enqueues nothing, and leaves the session
\* in the state it was in (an active session active) with its inbound pump
\* running.
C17_IllFormedFrameIsDropped ==
    [][\A s \in Sessions, f \in Frames :
         (Handled(s) /\ ~WellFormedVote(f) /\ Recv(s, f)) =>
            /\ shared' = shared
            /\ queue' = queue
            /\ pc' = pc
            /\ recv_alive' = recv_alive /\ recv_alive'[s]
            /\ send_alive' = send_alive
            /\ last'.op = "drop" /\ last'.id = s]_vars

\* a frame of a viewer holding a vote was dropped while another viewer had
\* not voted: the vote is still there, the cursor has not moved and the
\* session is active, both pumps running
C17_Witness ==
    /\ last.op = "drop"
    /\ last.id \in users
    /\ actions[last.id] = "Next"
    /\ \E t \in users : actions[t] = "None"
    /\ current_manga = 0 /\ current_page = 0
    /\ pc[last.id] = "active"
    /\ recv_alive[last.id] /\ send_alive[last.id]

\* C18: an image request with an index out of range or a page that cannot
\* be read is answered with an error, a request in range with a readable
\* page with the image; no request changes the cursor, the registry, the
\* votes, the sessions or the queues.
C18_ImageFetchErrorsAreContained ==
    [][(last'.op = "image") =>
         /\ shared' = shared
         /\ pc' = pc /\ recv_alive' = recv_alive /\ send_alive' = send_alive
         /\ queue' = queue /\ wire' = wire
         /\ LET m == http'.manga
                p == http'.page
                inRange == m < Len(mangas) /\ p < mangas[m + 1]
            IN  /\ ~(m < Len(mangas)) => http'.result = "Invalid manga index"
                /\ (m < Len(mangas) /\ ~(p < mangas[m + 1])) =>
                      http'.result = "Invalid page index"
                /\ inRange => http'.result \in {"image/webp", "Failed to read image"}
                /\ ~inRange => http'.result # "image/webp"]_vars

\* scenario D: /image?manga=5&page=0 against a collection of two items, with
\* a viewer registered
C18_Witness ==
    /\ Len(mangas) = 2
    /\ http = [req |-> "image", manga |-> 5, page |-> 0, result |-> "Invalid manga index"]
    /\ last.op = "image"
    /\ users # {}

\* ---- the lock of the shared state ----------------------------------------

\* the registry, the votes and the cursor
Guarded == <<users, actions, current_manga, current_page>>

\* the channel of u has grown by a snapshot
SnapshotEnqueued(u) ==
    /\ Len(queue'[u]) > Len(queue[u])
    /\ queue'[u][Len(queue'[u])] # "ping"

\* C12: at most one task holds the write guard and none holds a read guard
\* with it; the registry, the votes and the cursor change, and snapshots
\* are enqueued, only in steps of the task that holds the write guard; and
\* from the moment a vote is recorded until its guard is dropped no other
\* task takes a guard or takes a step inside one.
C12_WritesAreExclusiveAndAtomic ==
    [][/\ Cardinality(Writers') <= 1
       /\ Writers' # {} => Readers' = {}
       /\ (Guarded' # Guarded \/ \E u \in Sessions : SnapshotEnqueued(u)) =>
             \E t \in Tasks : Writers = {t} /\ Readers = {} /\ crit'[t] # crit[t]
       /\ \A t \in Tasks :
             crit[t].stage \in {"check", "broadcast"} =>
                \A o \in Tasks \ {t} :
                   /\ crit[o].stage \notin WriteHeld \cup ReadHeld
                   /\ crit'[o].stage \notin WriteHeld \cup ReadHeld]_vars

\* a vote brought consensus: its task holds the write guard, one of two
\* viewers has been sent the snapshot and the other viewer's inbound pump,
\* running, has not got the lock
C12_Witness ==
    \E s \in Sessions, u \in users :
        /\ crit[recv(s)].stage = "broadcast"
        /\ crit[recv(s)].left = {u}
        /\ Cardinality(users) = 2
        /\ u # s /\ recv_alive[u] /\ crit[recv(u)] = Idle
        /\ actions[u] = "None"

\* the snapshots a channel holds, oldest first
Snaps(q) == SelectSeq(q, LAMBDA m : m # "ping")

\* a is the end of b
IsSuffix(a, b) ==
    Len(a) <= Len(b) /\ \A i \in 1..Len(a) : a[i] = b[Len(b) - Len(a) + i]

\* the viewers a broadcast reaches: registered, the channel open
Reached == {u \in users : RxOpen(u)}

\* the viewers the broadcast in progress has still to send to
Unserved == UNION {crit[t].left : t \in {x \in Tasks : crit[x].stage = "broadcast"}}

\* what the channels look like when navigations are broadcast in the order
\* they were applied: the snapshots a viewer has still to receive are the
\* latest navigations, ending with the current cursor
InNavigationOrder ==
    /\ \A u \in Reached \ Unserved :
          Snaps(queue[u]) # << >> =>
             Snaps(queue[u])[Len(Snaps(queue[u]))] = <<current_manga, current_page>>
    /\ \A u \in Reached \ Unserved, v \in Reached \ Unserved :
          IsSuffix(Snaps(queue[u]), Snaps(queue[v])) \/ IsSuffix(Snaps(queue[v]), Snaps(queue[u]))
    /\ \A u \in Reached \cap Unserved, v \in Reached \cap Unserved :
          IsSuffix(Snaps(queue[u]), Snaps(queue[v])) \/ IsSuffix(Snaps(queue[v]), Snaps(queue[u]))

\* C11: a snapshot is enqueued at the tail of a channel, is the cursor just
\* applied, and the channel is flushed from its head; so the channels of
\* any two viewers hold the navigations in the order they were applied.
C11_SnapshotsInNavigationOrder ==
    [][/\ InNavigationOrder'
       /\ \A u \in Sessions :
             /\ SnapshotEnqueued(u) =>
                   /\ Len(queue'[u]) = Len(queue[u]) + 1
                   /\ \A i \in 1..Len(queue[u]) : queue'[u][i] = queue[u][i]
                   /\ queue'[u][Len(queue'[u])] = <<current_manga, current_page>>
                   /\ Writers # {}
             /\ (Len(queue'[u]) < Len(queue[u]) /\ queue'[u] # << >>) =>
                   /\ Len(queue'[u]) = Len(queue[u]) - 1
                   /\ \A i \in 1..Len(queue'[u]) : queue'[u][i] = queue[u][i + 1]]_vars

\* two viewers each hold the snapshots of the same two navigations, in the
\* order the cursor took them
C11_Witness ==
    /\ Cardinality(users) = 2
    /\ <<current_manga, current_page>> = <<0, 2>>
    /\ \A u \in users : Len(queue[u]) = 2 /\ Snaps(queue[u]) = <<<<0, 1>>, <<0, 2>>>>

\* ---- snapshots, startup and the vote map ---------------------------------

\* the positions of a ClientState lie within their totals
PositionsInRange(cs) ==
    /\ 1 <= cs.manga_pos[1] /\ cs.manga_pos[1] <= cs.manga_pos[2]
    /\ 1 <= cs.page_pos[1] /\ cs.page_pos[1] <= cs.page_pos[2]

\* C21: the snapshot of the current cursor names the current item, counts
\* item and page from one, and its positions lie within their totals.
C21_SnapshotIsProjectionInRange ==
    LET cs == ClientState(mangas, get_client_state(current_manga, current_page))
    IN  /\ cs.manga_name = current_manga + 1
        /\ cs.page_src = [manga |-> current_manga, page |-> current_page]
        /\ cs.manga_pos = <<current_manga + 1, Len(mangas)>>
        /\ cs.page_pos = <<current_page + 1, mangas[current_manga + 1]>>
        /\ PositionsInRange(cs)

\* with a collection whose items all have a page the positions of every
\* snapshot lie within their totals
SnapshotInRangeWhenWellFormed ==
    WellFormed =>
        PositionsInRange(ClientState(mangas, get_client_state(current_manga, current_page)))

\* C22: a collection that is empty, or has an item without a page, is never
\* served, and no session ends in a panic.
C22_InvalidCollectionNeverServed ==
    /\ ~WellFormed => users = {} /\ \A s \in Sessions : pc[s] \in {"new", "closed"}
    /\ \A s \in Sessions : pc[s] # "panicked"

\* with a collection that is not empty no session panics
NoPanicWhenServable ==
    mangas # << >> => \A s \in Sessions : pc[s] # "panicked"

\* C28: the vote map has an entry for exactly the registered viewers.
C28_VoteMapMatchesRegistry ==
    DOMAIN actions = users

\* C27: a session with a pump over is eventually removed from the registry
\* and the vote map, and stays out of both.
C27_FailedSessionLeavesForGood ==
    \A s \in Sessions :
        PumpOver(s) ~> [](s \notin users /\ s \notin DOMAIN actions)

\* a session with a pump over is eventually removed from the registry for
\* good, and from the vote map
FailedSessionIsUnregistered ==
    \A s \in Sessions :
        /\ PumpOver(s) ~> [](s \notin users)
        /\ PumpOver(s) ~> (s \notin DOMAIN actions)

\* the registered viewers all have an entry in the vote map
RegistryWithinVoteMap == users \subseteq DOMAIN actions

\* C29: a viewer registers with the vote none; while a registered viewer
\* holds none the cursor does not move, and only that viewer's own vote
\* replaces the none; so the snapshot read for a new viewer is still the
\* current cursor when it is written to the socket.
C29_NewViewerBlocksNavigation ==
    [][\A s \in Sessions :
         /\ s \in users' \ users => actions'[s] = "None"
         /\ pc'[s] = "registered" => s \in users' /\ actions'[s] = "None"
         /\ (s \in users /\ actions[s] = "None") =>
               /\ CursorUnchanged
               /\ (s \in DOMAIN actions' /\ actions'[s] # "None") =>
                     crit[recv(s)].stage = "vote"
         /\ crit'[conn(s)].stage = "send_initial" =>
               crit'[conn(s)].snap = <<current_manga', current_page'>>]_vars

\* the snapshot of a new viewer was read after an earlier navigation and is
\* about to be written while the other viewer holds a vote
C29_Witness ==
    \E s \in users, u \in users :
        /\ crit[conn(s)].stage = "send_initial"
        /\ crit[conn(s)].snap = <<0, 1>>
        /\ actions[s] = "None"
        /\ actions[u] = "Next"
\* a navigation is in progress from the move of the cursor to the last
\* send of broadcast_state
NavigationInProgress == \E s \in Sessions : crit[recv(s)].stage = "broadcast"

\* every snapshot enqueued for s has been written to its socket: s has its
\* first write behind it, its send pump runs on a socket that took every
\* write, and its channel is empty
Drained(s) ==
    /\ pc[s] = "active"
    /\ send_alive[s]
    /\ ~Broken(wire[s])
    /\ queue[s] = << >>

\* C30: whenever a registered viewer's outbound queue has been fully drained
\* to its socket and no navigation is in progress, the snapshot written to
\* that viewer last (the initial one or a broadcast one) is the one of the
\* current cursor: the viewer does not display an older position.
C30_DrainedViewerShowsCursor ==
    \A s \in DOMAIN shown :
        (s \in users /\ Drained(s) /\ ~NavigationInProgress)
            => shown[s] = get_client_state(current_manga, current_page)

\* both viewers have been moved by a broadcast to the second page and have
\* drained their queues
C30_Witness ==
    /\ DOMAIN shown \subseteq users
    /\ \A s \in DOMAIN shown : Drained(s) /\ shown[s] = <<0, 1>>
    /\ ~NavigationInProgress
    /\ <<current_manga, current_page>> = <<0, 1>>

\* the listener hands no further connection to handle_socket
NoNewConnection == \A s \in Sessions : pc[s] = "new" => pc'[s] = "new"

\* C23: once the shutdown flag is set (nothing clears it) the listener
\* eventually stops accepting, and from then on no connection is accepted;
\* the listener stops accepting only with the flag set.
C23_ListenerStopsOnlyWhenSignalled ==
    /\ srv.flag ~> ~srv.accepting
    /\ [][/\ srv.flag => srv'.flag
          /\ ~srv.accepting => ~srv'.accepting /\ NoNewConnection
          /\ (srv.accepting /\ ~srv'.accepting) => srv.flag]_vars

\* the listener has stopped on the flag with one connection still served
\* and the next one never accepted
C23_Witness ==
    /\ srv.flag
    /\ ~srv.accepting
    /\ pc[MaxSessions - 1] = "active"
    /\ pc[MaxSessions] = "new"

\* C24: home_handler and image_handler take the read side only (never while
\* a write guard is out), their steps leave the cursor, the registry and the
\* vote map unchanged, and the root page embeds the snapshot of the cursor as
\* it was at the one read under the guard.
C24_HttpHandlersOnlyRead ==
    /\ [](crit[web].stage \notin WriteHeld)
    /\ [](crit[web].stage \in ReadHeld => Writers = {})
    /\ [][crit'[web] # crit[web] =>
            /\ UNCHANGED <<current_manga, current_page, users, actions>>
            /\ crit'[web].stage = "render" =>
                    crit'[web].snap = get_client_state(current_manga, current_page)
            /\ crit[web].stage = "render" =>
                    /\ http'.req = "home"
                    /\ <<http'.manga, http'.page>> = crit[web].snap]_vars

\* the cursor has moved since home_handler read it: the page about to be
\* rendered carries the snapshot read, not the cursor of now
C24_Witness ==
    /\ crit[web].stage = "render"
    /\ crit[web].snap = <<0, 0>>
    /\ <<current_manga, current_page>> = <<0, 1>>

\* C25: no step of the service changes the Collection.
C25_CollectionNeverChanges == [][mangas' = mangas]_vars

\* a viewer has joined, navigated and left, an image has been refused and
\* the root page served after it, over the Collection of the start
C25_Witness ==
    /\ pc[MaxSessions] = "closed"
    /\ <<current_manga, current_page>> # <<0, 0>>
    /\ http.req = "home"
    /\ mangas \in IOCollections

\* the stages in which a task holds a guard of the lock
Held == WriteHeld \cup ReadHeld

\* the next step of the task t inside the section it is in
Proceeds(t) ==
    \/ \E s \in Sessions :
          /\ t = conn(s)
          /\ DoRegister(s) \/ ReadInitial(s) \/ DoCleanup(s)
    \/ \E s \in Sessions :
          /\ t = recv(s)
          /\ InsertVote(s) \/ CheckVote(s) \/ UnlockVote(s)
               \/ \E u \in Sessions : SendState(s, u)
    \/ /\ t = heartbeat
       /\ UnlockHeartbeat \/ \E u \in Sessions : PingUser(u)
    \/ /\ t = web
       /\ CheckImage

\* the channels the task t has still to send into are all at the depth the
\* model gives them (the channels of the code have no depth)
OutOfRoom(t) ==
    /\ crit[t].left # {}
    /\ \A u \in crit[t].left : Len(queue[u]) = QueueDepth

\* the image handler leaves its guarded block without a response only with
\* the path, and answers from inside it only to refuse an index
NoFileReadUnderGuard ==
    (crit[web].stage = "image" /\ crit'[web] # crit[web]) =>
        \/ crit'[web].stage = "read_file" /\ http' = http
        \/ crit'[web] = Idle /\ http'.result \in {"Invalid manga index", "Invalid page index"}

Opposite(a) == IF a = "Next" THEN "Prev" ELSE "Next"

\* the cursor is the last page of the last item / the first of the first
AtLastPage == current_manga + 1 >= Len(mangas) /\ current_page + 1 >= mangas[current_manga + 1]
AtFirstPage == current_manga = 0 /\ current_page = 0

\* C34: with every item of at least one page, an accepted advance from a
\* cursor that is not the last page of the last item moves the cursor, and
\* the retreat from where it arrives gives the cursor back; likewise an
\* accepted retreat from a cursor that is not the first page of the first
\* item, and the advance from where it arrives.
C34_AdvanceAndRetreatAreInverse ==
    [][(Navigated /\ WellFormed /\ ~(IF last'.applied = "Next" THEN AtLastPage ELSE AtFirstPage)) =>
          /\ <<current_manga', current_page'>> # <<current_manga, current_page>>
          /\ navigate(mangas, current_manga', current_page', Opposite(last'.applied))
                 = <<current_manga, current_page>>]_vars

\* an accepted retreat has just crossed from the second item back to the
\* last page of a first item of several pages
C34_Witness ==
    /\ WellFormed
    /\ last.op = "vote"
    /\ last.applied = "Prev"
    /\ Len(mangas) = 2
    /\ mangas[1] >= 2
    /\ <<current_manga, current_page>> = <<0, mangas[1] - 1>>

\* the indices of page_src in the snapshot of the cursor pass both checks of
\* image_handler against ms
Fetchable(ms, cm, cp) ==
    LET src == ClientState(ms, get_client_state(cm, cp)).page_src
    IN  image_response(ms, src.manga, src.page, TRUE) = "image/webp"

\* C35: in every reachable state in which a snapshot can be produced (the
\* collection is not empty), the (manga, page) of its page_src is accepted
\* by the index validation of image_handler on the same collection.
C35_PageSrcIsFetchable ==
    Len(mangas) > 0 => Fetchable(mangas, current_manga, current_page)

\* with every item of at least one page the page_src of the snapshot is
\* accepted in every reachable state
PageSrcIsFetchableWhenWellFormed ==
    WellFormed => Fetchable(mangas, current_manga, current_page)

\* C31: the vote map holds one vote per id and the latest wins: the insert
\* of a next or prev writes the entry of the voter, whatever it held, and
\* no other entry; consensus is then evaluated on the map with the value
\* written, and is reached exactly when the registry is not empty and every
\* entry holds that vote, so that one viewer voting again stands for no
\* other entry.
C31_LatestVoteReplaces ==
    /\ [](\A s \in Sessions : crit[recv(s)].stage = "check" =>
              s \in DOMAIN actions /\ actions[s] = crit[recv(s)].intent)
    /\ [][\A s \in Sessions :
            /\ (crit[recv(s)].stage = "vote" /\ crit'[recv(s)] # crit[recv(s)]) =>
                  /\ DOMAIN actions' = DOMAIN actions \cup {s}
                  /\ actions'[s] = crit[recv(s)].intent
                  /\ \A k \in DOMAIN actions \ {s} : actions'[k] = actions[k]
            /\ (crit[recv(s)].stage = "check" /\ crit'[recv(s)] # crit[recv(s)]) =>
                  (crit'[recv(s)].stage = "broadcast"
                     <=> (users # {} /\ \A k \in DOMAIN actions :
                                          actions[k] = crit[recv(s)].intent))]_vars

\* a viewer with next pending is casting prev, the vote the other viewer
\* holds: the write guard is taken, the insert comes next
C31_Witness ==
    \E s, u \in users :
        /\ s # u
        /\ crit[recv(s)].stage = "vote"
        /\ crit[recv(s)].intent = "Prev"
        /\ actions[s] = "Next"
        /\ actions[u] = "Prev"

\* f and g are the same well-formed vote but for the string in uuid
SameButUuid(f, g) == WellFormedVote(f) /\ WellFormedVote(g) /\ f.type = g.type

\* C32: the handling of a well-formed next or prev does not depend on its
\* uuid field: the step taken on the frame f is a step on every frame that
\* differs from f in the uuid only (so runs that differ in these strings go
\* through the same states: registry, votes, cursor, queues). The vote is
\* written to the entry of the connection the frame arrived on, and the
\* entry of another id changes only when a navigation resets them all.
C32_VoteGoesToTheConnection ==
    [][\A s \in Sessions, f \in Frames :
         (Handled(s) /\ WellFormedVote(f) /\ Recv(s, f)) =>
            /\ \A g \in Frames : SameButUuid(f, g) => Recv(s, g)
            /\ last'.op = "vote" /\ last'.intent = Decode(f)
            /\ ~Navigated => actions' = MapInsert(actions, s, Decode(f))
            /\ Navigated => \A k \in DOMAIN actions' : actions'[k] = "None"]_vars

\* a vote has arrived on one connection and sits in its entry alone: the
\* other viewer, whose token the frame may have carried, holds no vote and
\* the cursor has not moved
C32_Witness ==
    /\ last.op = "vote"
    /\ last.applied = "None"
    /\ last.id \in users
    /\ actions[last.id] = last.intent
    /\ \E u \in users : u # last.id /\ actions[u] = "None"
    /\ <<current_manga, current_page>> = <<0, 0>>

\* the stages at which a guard has just been granted
Granted == {"register", "initial", "vote", "cleanup", "ping", "home", "image"}

\* a task holding a guard has sends to do and no room, in the channels of
\* the model, for any of them
Stuffed == \E t \in Tasks : crit[t].stage \in Held /\ OutOfRoom(t)

\* the task waits for the lock: register, snapshot read, castVote,
\* unregister, heartbeat tick
WaitsRegister(s) == crit[conn(s)].stage = "want_register"
WaitsInitial(s) == pc[s] = "registered" /\ crit[conn(s)] = Idle
WaitsVote(s) == crit[recv(s)].stage = "want_vote"
WaitsCleanup(s) ==
    pc[s] = "active" /\ (~recv_alive[s] \/ ~send_alive[s]) /\ crit[conn(s)] = Idle
WaitsPing == crit[heartbeat].stage = "want_ping"

\* C33: a guard is granted only to a task that holds none; a task holding
\* a guard has its next step enabled whatever the other tasks do (short of
\* the depth of the model's channels); and with the tasks polled and the
\* lock's queue served in order, every task waiting for the lock to
\* register, read the snapshot, vote, unregister or ping obtains it.
C33_LockIsGrantedToEveryWaiter ==
    /\ [][\A t \in Tasks :
            (crit'[t].stage # crit[t].stage /\ crit'[t].stage \in Granted)
                => crit[t].stage \notin Held]_vars
    /\ [](\A t \in Tasks : crit[t].stage \in Held => ENABLED InSection(t) \/ OutOfRoom(t))
    /\ \A s \in Sessions :
          /\ WaitsRegister(s) ~> (crit[conn(s)].stage = "register" \/ Stuffed)
          /\ WaitsInitial(s) ~> (crit[conn(s)].stage = "initial" \/ Stuffed)
          /\ WaitsVote(s) ~> (crit[recv(s)].stage = "vote" \/ Stuffed)
          /\ WaitsCleanup(s) ~> (crit[conn(s)].stage = "cleanup" \/ Stuffed)
    /\ WaitsPing ~> (crit[heartbeat].stage = "ping" \/ Stuffed)

\* a vote and the heartbeat wait for the lock together while the cleanup
\* of the connection holds the write guard
C33_Witness ==
    \E s \in Callers :
        /\ WaitsVote(s)
        /\ WaitsPing
        /\ crit[conn(s)].stage = "cleanup"
        /\ ~Stuffed

====
